---- MODULE Spec2Model ----
(***************************************************************************)
(* Model of the Maxwell dashboard: the single-pack audit view              *)
(* (maxwell_dashboard/app.js) and the two-pack comparator                  *)
(* (maxwell_dashboard/compare.js).                                         *)
(*                                                                         *)
(* JSON values are tagged records:                                         *)
(*   [t |-> "undef"]            JavaScript undefined (a missing key)       *)
(*   [t |-> "null"]             null                                       *)
(*   [t |-> "bool", b |-> B]    true / false                               *)
(*   [t |-> "num",  n |-> N]    a finite number, N counted in quarters:    *)
(*                              the number is N / 4, so 1.0 is 4, 70.0 is  *)
(*                              280 and 297.5 is 1190.  Quarters are exact *)
(*                              binary fractions, so the arithmetic below  *)
(*                              is the arithmetic of IEEE doubles on them. *)
(*   [t |-> "inf",  neg |-> B]  +Infinity / -Infinity (JSON 1e999)         *)
(*   [t |-> "nan"]              NaN (only ever a result of Number())       *)
(*   [t |-> "str",  s |-> S]    a string, S a sequence of 1-char strings   *)
(*   [t |-> "arr",  a |-> A]    an array, A a sequence of values           *)
(*   [t |-> "obj",  f |-> F]    an object, F a function from keys to values*)
(* Text written to the page is a TLA+ string.  The source's non-ASCII      *)
(* characters are written in ASCII: the em dash U+2014 as "--", the        *)
(* non-breaking hyphen U+2011 as "-", the multiplication sign as "x",      *)
(* the minus sign U+2212 as "-" and the ellipsis as "...".                 *)
(***************************************************************************)
EXTENDS Integers, Sequences, FiniteSets, TLC

-----------------------------------------------------------------------------
(* JSON / JavaScript values *)

\* the unit of the number representation: a number is a count of 1/Q
Q == 2 * 2

Undefined == [t |-> "undef"]
Null == [t |-> "null"]
NaN == [t |-> "nan"]
Bool(b) == [t |-> "bool", b |-> b]
Num(n) == [t |-> "num", n |-> n]
Inf(neg) == [t |-> "inf", neg |-> neg]
Str(s) == [t |-> "str", s |-> s]
Arr(a) == [t |-> "arr", a |-> a]
Obj(f) == [t |-> "obj", f |-> f]

EmptyObj == Obj([k \in {} |-> Undefined])

\* a key of an object literal; a key whose value is undefined is left out
Opt(k, v) == IF v = Undefined THEN [x \in {} |-> Undefined] ELSE (k :> v)

\* JavaScript truthiness: !x is true for undefined, null, false, 0, NaN, ""
Truthy(x) ==
  CASE x.t = "undef" -> FALSE
    [] x.t = "null" -> FALSE
    [] x.t = "bool" -> x.b
    [] x.t = "num" -> x.n # 0
    [] x.t = "nan" -> FALSE
    [] x.t = "str" -> x.s # <<>>
    [] OTHER -> TRUE

\* a ?? b
Coalesce(a, b) == IF a.t \in {"null", "undef"} THEN b ELSE a

\* a || b
OrElse(a, b) == IF Truthy(a) THEN a ELSE b

\* Object.prototype.hasOwnProperty.call(cur, p) for a truthy cur.  The keys
\* looked up are never "length" or an index, so only objects own them.
HasOwn(cur, p) == cur.t = "obj" /\ p \in DOMAIN cur.f

RECURSIVE Walk(_, _)
Walk(cur, parts) ==
  IF parts = <<>> THEN cur
  ELSE IF Truthy(cur) /\ HasOwn(cur, Head(parts)) THEN Walk(cur.f[Head(parts)], Tail(parts))
  ELSE Undefined

\* getPath(obj, path); the dotted path is given already split
getPath(obj, parts) == IF ~Truthy(obj) THEN Undefined ELSE Walk(obj, parts)

-----------------------------------------------------------------------------
(* Number(x) *)

Digits == <<"0", "1", "2", "3", "4", "5", "6", "7", "8", "9">>

IsDigit(c) == \E i \in 1..10 : Digits[i] = c

DigitVal(c) == (CHOOSE i \in 1..10 : Digits[i] = c) - 1

AllDigits(s) == \A i \in 1..Len(s) : IsDigit(s[i])

RECURSIVE DigitsValue(_)
DigitsValue(s) ==
  IF s = <<>> THEN 0
  ELSE 10 * DigitsValue(SubSeq(s, 1, Len(s) - 1)) + DigitVal(s[Len(s)])

RECURSIVE Pow10(_)
Pow10(k) == IF k = 0 THEN 1 ELSE 10 * Pow10(k - 1)

RECURSIVE TrimLeft(_)
TrimLeft(s) == IF s # <<>> /\ Head(s) = " " THEN TrimLeft(Tail(s)) ELSE s

RECURSIVE TrimRight(_)
TrimRight(s) ==
  IF s # <<>> /\ s[Len(s)] = " " THEN TrimRight(SubSeq(s, 1, Len(s) - 1)) ELSE s

\* StringToNumber for the decimal literals without exponent: optional sign,
\* digits, optional fraction.  The empty (or blank) string is 0, anything
\* else is NaN.  Fractions are multiples of 0.25 in every input used here.
\* ip and fp are the digits before and after the point.
DecimalValue(neg, ip, fp) ==
  IF ~AllDigits(ip) \/ ~AllDigits(fp) \/ (ip = <<>> /\ fp = <<>>) THEN NaN
  ELSE Num((IF neg THEN 0 - 1 ELSE 1)
           * (Q * DigitsValue(ip) + (Q * DigitsValue(fp)) \div Pow10(Len(fp))))

\* body is the literal without its sign, d the position of its point
SplitAtPoint(neg, body, d) ==
  DecimalValue(neg, SubSeq(body, 1, d - 1), SubSeq(body, d + 1, Len(body)))

UnsignedLiteral(neg, body, dots) ==
  IF body = <<>> \/ Cardinality(dots) > 1 THEN NaN
  ELSE SplitAtPoint(neg, body, IF dots = {} THEN Len(body) + 1 ELSE CHOOSE i \in dots : TRUE)

SignedLiteral(neg, body) ==
  UnsignedLiteral(neg, body, {i \in 1..Len(body) : body[i] = "."})

TrimmedToNumber(t) ==
  IF t = <<>> THEN Num(0)
  ELSE SignedLiteral(t[1] = "-", IF t[1] \in {"+", "-"} THEN Tail(t) ELSE t)

StringToNumber(s) == TrimmedToNumber(TrimRight(TrimLeft(s)))

\* Number(x).  An array is converted through its string form: [] is "",
\* [e] is String(e) and a longer array contains a comma.
RECURSIVE ToNumber(_)
ToNumber(x) ==
  CASE x.t = "undef" -> NaN
    [] x.t = "null" -> Num(0)
    [] x.t = "bool" -> Num(IF x.b THEN Q ELSE 0)
    [] x.t = "num" -> x
    [] x.t = "inf" -> x
    [] x.t = "nan" -> x
    [] x.t = "str" -> StringToNumber(x.s)
    [] x.t = "arr" ->
         IF Len(x.a) = 0 THEN Num(0)
         ELSE IF Len(x.a) > 1 THEN NaN
         ELSE IF x.a[1].t \in {"null", "undef"} THEN Num(0)
         ELSE IF x.a[1].t \in {"bool", "obj"} THEN NaN
         ELSE ToNumber(x.a[1])
    [] OTHER -> NaN

\* num(x) of compare.js and _num(x) of app.js (the same body)
FiniteOrNull(n) == IF n.t = "num" THEN n ELSE Null

num(x) == IF x.t \in {"null", "undef"} THEN Null ELSE FiniteOrNull(ToNumber(x))

-----------------------------------------------------------------------------
(* Number formatting *)

RECURSIVE PadDigits(_, _)
\* the decimal digits of n >= 0, left-padded with zeros to width w
PadDigits(n, w) ==
  IF w = 0 THEN ""
  ELSE PadDigits(n \div 10, w - 1) \o ToString(n % 10)

\* Number.prototype.toFixed(d) of the finite number n / 4.  The sign is taken
\* off first and the magnitude rounded to d decimals, a tie going to the
\* larger magnitude (quarters are exact, so ties are real ties).
FixedDigits(scaled, p, d) ==
  ToString(scaled \div p) \o (IF d = 0 THEN "" ELSE "." \o PadDigits(scaled % p, d))

FixedMagnitude(a, p, d) ==
  FixedDigits((a \div Q) * p + (2 * (a % Q) * p + Q) \div (2 * Q), p, d)

toFixed(n, d) ==
  (IF n < 0 THEN "-" ELSE "") \o FixedMagnitude(IF n < 0 THEN 0 - n ELSE n, Pow10(d), d)

\* String(n) of the finite number n / 4: the shortest decimal form
NumToString(n) ==
  IF n % Q = 0 THEN toFixed(n, 0)
  ELSE IF n % 2 = 0 THEN toFixed(n, 1)
  ELSE toFixed(n, 2)

Dash == "--"

\* String(x) for the values that reach it
RECURSIVE JoinChars(_)
JoinChars(s) == IF s = <<>> THEN "" ELSE Head(s) \o JoinChars(Tail(s))

RECURSIVE ToStr(_)
RECURSIVE JoinArr(_)
JoinArr(a) ==
  IF a = <<>> THEN ""
  ELSE (IF Head(a).t \in {"null", "undef"} THEN "" ELSE ToStr(Head(a)))
       \o (IF Len(a) > 1 THEN "," \o JoinArr(Tail(a)) ELSE "")

ToStr(x) ==
  CASE x.t = "undef" -> "undefined"
    [] x.t = "null" -> "null"
    [] x.t = "bool" -> (IF x.b THEN "true" ELSE "false")
    [] x.t = "num" -> NumToString(x.n)
    [] x.t = "inf" -> (IF x.neg THEN "-Infinity" ELSE "Infinity")
    [] x.t = "nan" -> "NaN"
    [] x.t = "str" -> JoinChars(x.s)
    [] x.t = "arr" -> JoinArr(x.a)
    [] OTHER -> "[object Object]"

\* x.k and x?.k: a property read (undefined when x has no such property)
Prop(x, k) == IF x.t = "obj" /\ k \in DOMAIN x.f THEN x.f[k] ELSE Undefined

\* a / b of two finite numbers, as an exact quotient p / q with q > 0, or
\* an infinity or NaN when b is 0.  Comparing the exact quotient with a
\* constant is the comparison of the doubles for the magnitudes used here.
Quot(a, b) ==
  IF b = 0 THEN (IF a = 0 THEN NaN ELSE Inf(a < 0))
  ELSE IF b > 0 THEN [t |-> "quot", p |-> a, q |-> b]
  ELSE [t |-> "quot", p |-> 0 - a, q |-> 0 - b]

\* r <= n / d and r > n / d for a quotient r and d > 0 (false for NaN)
QuotLeq(r, n, d) ==
  CASE r.t = "nan" -> FALSE
    [] r.t = "inf" -> r.neg
    [] OTHER -> r.p * d <= n * r.q

QuotGt(r, n, d) ==
  CASE r.t = "nan" -> FALSE
    [] r.t = "inf" -> ~r.neg
    [] OTHER -> r.p * d > n * r.q

-----------------------------------------------------------------------------
(* app.js: the gates of the audit view *)

\* the engineering thresholds of app.js
EXACT_MIN == 1
UTIL_MIN == 70
POWER_MAX_PCT == 85
POWER_LIMIT_DEFAULT == 350
MEMO_MIN_DEFAULT == 100

SHA_MISSING == "sha256: SUMMARY MISSING"
SHA_FAILED == "sha256: FAILED TO LOAD PACK"

P_M_ACC_B == <<"metrics", "baseline", "top1_accuracy">>
P_M_ACC_O == <<"metrics", "omega", "top1_accuracy">>
P_L_ACC_B == <<"measured", "baseline_vector_scan", "accuracy", "top1_accuracy">>
P_L_ACC_O == <<"measured", "ctdr", "accuracy", "top1_accuracy">>
P_M_UTIL_B == <<"metrics", "baseline", "gpu_util_pct_avg">>
P_M_UTIL_O == <<"metrics", "omega", "gpu_util_pct_avg">>
P_L_UTIL_B == <<"measured", "baseline_vector_scan", "energy", "gpu_util_pct_avg">>
P_L_UTIL_O == <<"measured", "ctdr", "energy", "gpu_util_pct_avg">>
P_M_POW_B == <<"metrics", "baseline", "power_w_avg">>
P_M_POW_O == <<"metrics", "omega", "power_w_avg">>
P_L_POW_B == <<"measured", "baseline_vector_scan", "energy", "power_w_avg">>
P_L_POW_O == <<"measured", "ctdr", "energy", "power_w_avg">>
P_LIMIT == <<"gpu", "power_limit_w">>
P_MEMO == <<"tracks", "memoization_prefix_range", "data">>
P_MEMO_RATIO == P_MEMO \o <<"delta", "energy_per_query_ratio_full_over_range">>
P_MEMO_MIN == P_MEMO \o <<"config", "pass_criteria", "min_energy_ratio">>

\* status.toUpperCase()
Upper(status) ==
  CASE status = "pass" -> "PASS"
    [] status = "fail" -> "FAIL"
    [] status = "warn" -> "WARN"

\* what _setGate(id, status, extra) leaves on the gate element: its one
\* status class and its text
SetGate(status, extra) ==
  [cls |-> status,
   text |-> IF extra # "" THEN Upper(status) \o " -- " \o extra ELSE Upper(status)]

\* AppMetric with the legacy tier tried first
AppMetricLegacyFirst(s, mPath, lPath) == Coalesce(num(getPath(s, lPath)), num(getPath(s, mPath)))

\* _num(getPath(s, "metrics...")) ?? _num(getPath(s, "measured..."))
AppMetric(s, mPath, lPath) == Coalesce(num(getPath(s, mPath)), num(getPath(s, lPath)))

AppPowerLimit(s) == Coalesce(num(getPath(s, P_LIMIT)), Num(POWER_LIMIT_DEFAULT * Q))


\* ExactOk with the comparison taken strictly
ExactOkStrict(accB, accO) ==
  accB # Null /\ accO # Null /\ accB.n > EXACT_MIN * Q /\ accO.n > EXACT_MIN * Q

\* lines 261-262, on the resolved accuracies
ExactOk(accB, accO) ==
  accB # Null /\ accO # Null /\ accB.n >= EXACT_MIN * Q /\ accO.n >= EXACT_MIN * Q

ExactGateOf(exactOk) ==
  SetGate(IF exactOk THEN "pass" ELSE "fail",
          IF exactOk THEN "top-1=1.0" ELSE "top-1 must be 1.0")

ExactnessGate(s) ==
  ExactGateOf(ExactOk(AppMetric(s, P_M_ACC_B, P_L_ACC_B), AppMetric(s, P_M_ACC_O, P_L_ACC_O)))

\* UtilOk requiring the baseline utilization as well
UtilOkBoth(utilB, utilO) ==
  utilO # Null /\ utilO.n >= UTIL_MIN * Q /\ (utilB = Null \/ utilB.n >= UTIL_MIN * Q)

\* lines 269-270, on the resolved utilizations
UtilOk(utilB, utilO) == utilO # Null /\ utilO.n >= UTIL_MIN * Q

UtilGateOf(utilB, utilO) ==
  SetGate(IF UtilOk(utilB, utilO) THEN "pass" ELSE "fail",
          IF utilO # Null THEN toFixed(utilO.n, 1) \o "%" ELSE "missing")

UtilGate(s) ==
  UtilGateOf(AppMetric(s, P_M_UTIL_B, P_L_UTIL_B), AppMetric(s, P_M_UTIL_O, P_L_UTIL_O))

\* PowerOk with the ratio compared strictly
PowerOkStrict(pO, pLimit) ==
  /\ pO # Null
  /\ QuotLeq(Quot(pO.n, pLimit.n), POWER_MAX_PCT, 100)
  /\ pO.n * 100 # POWER_MAX_PCT * pLimit.n

\* lines 278-279, on the resolved power and limit
PowerOk(pO, pLimit) == pO # Null /\ QuotLeq(Quot(pO.n, pLimit.n), POWER_MAX_PCT, 100)

PowerGateOf(pO, pLimit) ==
  SetGate(IF PowerOk(pO, pLimit) THEN "pass" ELSE "warn",
          IF pO # Null THEN toFixed(pO.n, 0) \o "W / " \o toFixed(pLimit.n, 0) \o "W"
          ELSE "missing")

PowerGate(s) == PowerGateOf(AppMetric(s, P_M_POW_O, P_L_POW_O), AppPowerLimit(s))

\* MemoMin that ignores the pack's own min_energy_ratio
MemoMinFixed(m) == Num(MEMO_MIN_DEFAULT * Q)

\* the pack's min_energy_ratio, or the default
MemoMin(m) == Coalesce(m, Num(MEMO_MIN_DEFAULT * Q))

\* lines 288-289, on the resolved ratio and minimum
MemoGateOf(ratio, minR) ==
  SetGate(IF ratio # Null /\ ratio.n >= minR.n THEN "pass" ELSE "fail",
          IF ratio # Null
          THEN toFixed(ratio.n, 1) \o "x (min " \o toFixed(minR.n, 0) \o "x)"
          ELSE "missing")

MemoGate(s) ==
  IF Truthy(getPath(s, P_MEMO))
  THEN MemoGateOf(num(getPath(s, P_MEMO_RATIO)), MemoMin(num(getPath(s, P_MEMO_MIN))))
  ELSE SetGate("warn", "missing track")

GateIds == {"gate-exactness", "gate-util", "gate-power", "gate-memo"}

\* the four _setGate calls of renderSummary
GatesOf(s) ==
  [g \in GateIds |->
     CASE g = "gate-exactness" -> ExactnessGate(s)
       [] g = "gate-util" -> UtilGate(s)
       [] g = "gate-power" -> PowerGate(s)
       [] g = "gate-memo" -> MemoGate(s)]

\* the link target renderSummary computes first: it calls src.startsWith,
\* which exists only on strings
SrcOf(s) ==
  OrElse(OrElse(Prop(Prop(s, "source"), "b_compare_json"), Prop(Prop(s, "source"), "path")),
         Str(<<"#">>))

SrcThrows(s) == SrcOf(s).t # "str"

\* String(sha).slice(0, 16)
Slice16(c) == SubSeq(c, 1, IF Len(c) < 16 THEN Len(c) ELSE 16)

ShaTextOf(sha) ==
  IF ~Truthy(sha) \/ sha = Str(<<"U", "N", "K", "N", "O", "W", "N">>)
  THEN "sha256: " \o Dash
  ELSE "sha256: " \o JoinChars(Slice16(IF sha.t = "str" THEN sha.s ELSE <<ToStr(sha)>>)) \o "..."

ShaText(s) ==
  ShaTextOf(OrElse(Prop(Prop(s, "source"), "b_compare_sha256"), Prop(Prop(s, "source"), "sha256")))

-----------------------------------------------------------------------------
(* Inputs of the audit view *)

SCHEMA_V1 ==
  Str(<<"s", "i", "g", "m", "a", "_", "s", "u", "m", "m", "a", "r", "y", "_",
        "p", "u", "b", "l", "i", "c", "_", "v", "1">>)

SCHEMA_OTHER == Str(<<"v", "2">>)

\* {metrics: {baseline: {key: vB}, omega: {key: vO}}}
MetricsOf(key, vB, vO) ==
  Obj(("baseline" :> Obj(Opt(key, vB))) @@ ("omega" :> Obj(Opt(key, vO))))

\* {measured: {baseline_vector_scan: {group: {key: vB}}, ctdr: {group: {key: vO}}}}
MeasuredOf(group, key, vB, vO) ==
  Obj(("baseline_vector_scan" :> Obj(group :> Obj(Opt(key, vB))))
      @@ ("ctdr" :> Obj(group :> Obj(Opt(key, vO)))))

MkPack(schema, metrics, measured, gpu, tracks) ==
  Obj(Opt("schema", schema) @@ Opt("metrics", metrics) @@ Opt("measured", measured)
      @@ Opt("gpu", gpu) @@ Opt("tracks", tracks))

\* the leaf values a metric is given: numbers around the thresholds and
\* one value of every other JSON kind
N(whole, quarters) == Num(whole * Q + quarters)

CoerceVals ==
  {Null, Bool(TRUE), Bool(FALSE), N(1, 0), N(0, 3), N(0, 0), N(0 - 2, 0), Inf(FALSE), Inf(TRUE),
   Str(<<>>), Str(<<" ">>), Str(<<"a", "b", "c">>), Str(<<"1">>), Str(<<"7", "0", ".", "0">>),
   Str(<<" ", "-", "0", ".", "7", "5">>), Str(<<"1", ".", "2", ".", "3">>), Str(<<"7", "0", "%">>),
   Arr(<<>>), Arr(<<N(85, 0)>>), Arr(<<N(1, 0), N(1, 0)>>), Arr(<<Str(<<"9", "0">>)>>),
   EmptyObj, Obj("value" :> N(1, 0))}

Schemas == {Undefined, SCHEMA_V1}

AccMetricVals == {Undefined, Null, N(1, 0), N(0, 3), Str(<<"1", ".", "0">>), Bool(TRUE)}
AccLegacyVals == {Undefined, N(1, 0), N(0, 3), N(1, 1)}

AccPacks ==
  {MkPack(sch, MetricsOf("top1_accuracy", mB, mO),
          MeasuredOf("accuracy", "top1_accuracy", lB, lO), Undefined, Undefined) :
     sch \in Schemas, mB \in AccMetricVals, mO \in AccMetricVals,
     lB \in AccLegacyVals, lO \in AccLegacyVals}

UtilMetricVals ==
  {Undefined, Null, N(69, 3), N(70, 0), N(70, 1), N(65, 0), N(90, 2), N(0, 0),
   Str(<<"7", "0">>), Str(<<"h", "i", "g", "h">>), Bool(FALSE)}
UtilLegacyVals == {Undefined, N(70, 0), N(69, 3)}

UtilPacks ==
  {MkPack(sch, MetricsOf("gpu_util_pct_avg", mB, mO),
          MeasuredOf("energy", "gpu_util_pct_avg", lB, lO), Undefined, Undefined) :
     sch \in Schemas, mB \in {Undefined, N(65, 0), N(90, 0)}, mO \in UtilMetricVals,
     lB \in {Undefined, N(50, 0)}, lO \in UtilLegacyVals}

PowerMetricVals ==
  {Undefined, Null, N(297, 2), N(297, 3), N(280, 0), N(85, 0), N(85, 1), N(0, 0),
   N(0 - 1, 0), N(0 - 300, 0), Str(<<"2", "8", "0">>)}
PowerLimitVals ==
  {Undefined, Null, N(350, 0), N(100, 0), N(0, 0), N(0 - 350, 0),
   Str(<<"1", "0", "0">>), Str(<<"m", "a", "x">>), Bool(TRUE)}

PowerPacks ==
  {MkPack(SCHEMA_V1, MetricsOf("power_w_avg", mB, mO),
          MeasuredOf("energy", "power_w_avg", Undefined, lO), Obj(Opt("power_limit_w", lim)),
          Undefined) :
     mB \in {Undefined, N(400, 0)}, mO \in PowerMetricVals,
     lO \in {Undefined, N(297, 2), N(400, 0)}, lim \in PowerLimitVals}

MemoRatioVals ==
  {Undefined, Null, N(100, 0), N(99, 3), N(150, 0), N(50, 0), N(49, 3),
   Str(<<"1", "0", "0">>), Str(<<"n", "/", "a">>)}
MemoMinVals == {Undefined, Null, N(100, 0), N(50, 0), N(150, 0), Str(<<"5", "0">>)}

MemoData(ratio, minR) ==
  Obj(("delta" :> Obj(Opt("energy_per_query_ratio_full_over_range", ratio)))
      @@ ("config" :> Obj("pass_criteria" :> Obj(Opt("min_energy_ratio", minR)))))

MemoDataVals ==
  {MemoData(r, m) : r \in MemoRatioVals, m \in MemoMinVals}
  \cup {Undefined, Null, Bool(FALSE), Bool(TRUE), N(0, 0), N(5, 0), Str(<<>>), EmptyObj,
        Obj("delta" :> Null), Obj("delta" :> Obj("energy_per_query_ratio_full_over_range" :> N(120, 0)))}

MemoPacks ==
  {MkPack(SCHEMA_V1, Undefined, Undefined, Undefined,
          Obj("memoization_prefix_range" :> Obj(Opt("data", d)))) : d \in MemoDataVals}
  \cup {MkPack(SCHEMA_V1, Undefined, Undefined, Undefined, t) :
          t \in {Null, EmptyObj, Obj("memoization_prefix_range" :> Null)}}

\* every kind of value in each slot a gate reads, the other tier absent
CoercePacks ==
  {MkPack(sch,
          Obj(("baseline" :> Obj("top1_accuracy" :> v))
              @@ ("omega" :> Obj(("top1_accuracy" :> v) @@ ("gpu_util_pct_avg" :> v)
                                 @@ ("power_w_avg" :> v)))),
          Undefined, Undefined, Undefined) : sch \in Schemas, v \in CoerceVals}
  \cup {MkPack(Undefined, Undefined,
               Obj(("baseline_vector_scan" :> Obj("accuracy" :> Obj("top1_accuracy" :> v)))
                   @@ ("ctdr" :> Obj(("accuracy" :> Obj("top1_accuracy" :> v))
                                     @@ ("energy" :> Obj(("gpu_util_pct_avg" :> v)
                                                         @@ ("power_w_avg" :> v)))))),
               Undefined, Undefined) : v \in CoerceVals}

\* packs whose tiers are cut off at an intermediate segment
ShapePacks ==
  {MkPack(sch, m, l, Undefined, Undefined) :
     sch \in {Undefined, SCHEMA_V1, SCHEMA_OTHER},
     m \in {Undefined, Null, N(0, 0), EmptyObj, Obj("omega" :> Null), Obj("omega" :> EmptyObj),
            Str(<<"m">>), Arr(<<>>),
            Obj(("baseline" :> Obj(("top1_accuracy" :> N(1, 0))))
                @@ ("omega" :> Obj(("top1_accuracy" :> N(1, 0)) @@ ("gpu_util_pct_avg" :> N(90, 2))
                                   @@ ("power_w_avg" :> N(280, 0)))))},
     l \in {Undefined, Null, EmptyObj, Obj("ctdr" :> Null), Obj("ctdr" :> EmptyObj),
            Obj("ctdr" :> Obj("energy" :> N(70, 0))),
            Obj("ctdr" :> Obj(("energy" :> EmptyObj) @@ ("accuracy" :> Arr(<<N(1, 0)>>)))),
            Obj(("baseline_vector_scan" :> Obj("accuracy" :> Obj("top1_accuracy" :> N(0, 3))))
                @@ ("ctdr" :> Obj(("accuracy" :> Obj("top1_accuracy" :> N(0, 3)))
                                  @@ ("energy" :> Obj(("gpu_util_pct_avg" :> N(65, 0))
                                                      @@ ("power_w_avg" :> N(340, 0)))))))}}

\* values that are not packs at all
ScalarPacks == {Undefined, Null, Bool(FALSE), Bool(TRUE), N(0, 0), N(5, 0), Str(<<>>), Str(<<"p">>),
                Arr(<<>>), EmptyObj}

AuditPacks == AccPacks \cup UtilPacks \cup PowerPacks \cup MemoPacks \cup CoercePacks
              \cup ShapePacks \cup ScalarPacks

-----------------------------------------------------------------------------
(* compare.js: the comparison table *)

STATUS_BOTH == "Loaded both packs. Delta is B - A."
STATUS_ONE == "Loaded one pack. Pick the second file to compare."
STATUS_FAILED == "Failed to parse JSON: "

P_GPU_NAME == <<"gpu", "name">>

\* fmt(x, decimals) of compare.js
FmtNum(n, decimals) == IF n = Null THEN Dash ELSE toFixed(n.n, decimals)

fmt(x, decimals) == FmtNum(num(x), decimals)

\* the <tr> metricRow builds: its class and its four cells
metricRow(metric, a, b, deltaText, cls) ==
  [label |-> metric, a |-> a, b |-> b, delta |-> deltaText, cls |-> cls]

\* classify with win and lose exchanged for the lower-is-better metrics
classifyLowerAsHigher(delta, betterWhen) ==
  IF delta = Null THEN ""
  ELSE IF betterWhen \in {"lower", "higher"} THEN
    (IF delta.n > 0 THEN "win" ELSE IF delta.n < 0 THEN "lose" ELSE "tie")
  ELSE ""

\* delta is null or a number
classify(delta, betterWhen) ==
  IF delta = Null THEN ""
  ELSE IF betterWhen = "lower" THEN
    (IF delta.n < 0 THEN "win" ELSE IF delta.n > 0 THEN "lose" ELSE "tie")
  ELSE IF betterWhen = "higher" THEN
    (IF delta.n > 0 THEN "win" ELSE IF delta.n < 0 THEN "lose" ELSE "tie")
  ELSE ""

hasMetricsV1(x) ==
  /\ Truthy(x)
  /\ x.t \in {"obj", "arr"}
  /\ Prop(x, "schema") = SCHEMA_V1
  /\ Truthy(Prop(x, "metrics"))

v1(x, which, key) ==
  IF ~hasMetricsV1(x) THEN Null
  ELSE num(Prop(Prop(Prop(x, "metrics"), which), key))

\* the catalogue of metric rows, in table order (the GPU-name row, which has
\* no path, comes before them)
MetricRows ==
  << [label |-> "CTDR/Omega QPS", path |-> <<"measured", "ctdr", "qps">>,
      which |-> "omega", key |-> "qps", fmtDec |-> 3, betterWhen |-> "higher"],
     [label |-> "CTDR/Omega latency p95 (ms)", path |-> <<"measured", "ctdr", "latency_ms", "p95">>,
      which |-> "omega", key |-> "lat_p95_ms", fmtDec |-> 3, betterWhen |-> "lower"],
     [label |-> "CTDR/Omega J/query", path |-> <<"measured", "ctdr", "energy", "joules_per_query">>,
      which |-> "omega", key |-> "joules_per_query", fmtDec |-> 3, betterWhen |-> "lower"],
     [label |-> "CTDR/Omega power avg (W)", path |-> <<"measured", "ctdr", "energy", "power_w_avg">>,
      which |-> "omega", key |-> "power_w_avg", fmtDec |-> 1, betterWhen |-> "lower"],
     [label |-> "CTDR/Omega GPU util avg (%)", path |-> <<"measured", "ctdr", "energy", "gpu_util_pct_avg">>,
      which |-> "omega", key |-> "gpu_util_pct_avg", fmtDec |-> 1, betterWhen |-> "higher"],
     [label |-> "CTDR/Omega top-1 accuracy", path |-> <<"measured", "ctdr", "accuracy", "top1_accuracy">>,
      which |-> "omega", key |-> "top1_accuracy", fmtDec |-> 6, betterWhen |-> "higher"],
     [label |-> "Baseline vector_scan QPS", path |-> <<"measured", "baseline_vector_scan", "qps">>,
      which |-> "baseline", key |-> "qps", fmtDec |-> 3, betterWhen |-> "higher"],
     [label |-> "Baseline vector_scan latency p95 (ms)",
      path |-> <<"measured", "baseline_vector_scan", "latency_ms", "p95">>,
      which |-> "baseline", key |-> "lat_p95_ms", fmtDec |-> 3, betterWhen |-> "lower"],
     [label |-> "Baseline vector_scan J/query",
      path |-> <<"measured", "baseline_vector_scan", "energy", "joules_per_query">>,
      which |-> "baseline", key |-> "joules_per_query", fmtDec |-> 3, betterWhen |-> "lower"],
     [label |-> "Baseline vector_scan power avg (W)",
      path |-> <<"measured", "baseline_vector_scan", "energy", "power_w_avg">>,
      which |-> "baseline", key |-> "power_w_avg", fmtDec |-> 1, betterWhen |-> "lower"],
     [label |-> "Baseline vector_scan GPU util avg (%)",
      path |-> <<"measured", "baseline_vector_scan", "energy", "gpu_util_pct_avg">>,
      which |-> "baseline", key |-> "gpu_util_pct_avg", fmtDec |-> 1, betterWhen |-> "higher"],
     [label |-> "Baseline vector_scan top-1 accuracy",
      path |-> <<"measured", "baseline_vector_scan", "accuracy", "top1_accuracy">>,
      which |-> "baseline", key |-> "top1_accuracy", fmtDec |-> 6, betterWhen |-> "higher"] >>

\* av / bv of the row loop: the v1 tier for a v1 pack, else the legacy path
RowValue(x, r) ==
  IF hasMetricsV1(x) THEN v1(x, r.which, r.key) ELSE num(getPath(x, r.path))

\* RowDelta with the operands exchanged
RowDeltaSwapped(av, bv) == IF av # Null /\ bv # Null THEN Num(av.n - bv.n) ELSE Null

\* delta of the row loop: B - A, or null
RowDelta(av, bv) == IF av # Null /\ bv # Null THEN Num(bv.n - av.n) ELSE Null

GpuRow(a, b) ==
  metricRow("GPU name", ToStr(Coalesce(getPath(a, P_GPU_NAME), Str(<<"-", "-">>))),
            ToStr(Coalesce(getPath(b, P_GPU_NAME), Str(<<"-", "-">>))), Dash, "")

RowCells(r, av, bv, delta) ==
  metricRow(r.label, fmt(av, r.fmtDec), fmt(bv, r.fmtDec),
            IF delta = Null THEN Dash ELSE fmt(delta, r.fmtDec), classify(delta, r.betterWhen))

RowOf(r, av, bv) == RowCells(r, av, bv, RowDelta(av, bv))

MetricRow(a, b, r) == RowOf(r, RowValue(a, r), RowValue(b, r))

\* aAcc / bAcc of the gate hints
HintAcc(x) ==
  IF hasMetricsV1(x) THEN v1(x, "omega", "top1_accuracy")
  ELSE num(getPath(x, <<"measured", "ctdr", "accuracy", "top1_accuracy">>))

\* HintRowsOf with B's hint before A's and 1.0 itself hinted
HintRowsOfSwapped(aAcc, bAcc) ==
  (IF bAcc # Null /\ bAcc.n <= EXACT_MIN * Q
   THEN <<metricRow("Gate: B exactness", "", "FAIL (<1.0)", "", "warn")>> ELSE <<>>)
  \o (IF aAcc # Null /\ aAcc.n <= EXACT_MIN * Q
      THEN <<metricRow("Gate: A exactness", "FAIL (<1.0)", "", "", "warn")>> ELSE <<>>)

HintRowsOf(aAcc, bAcc) ==
  (IF aAcc # Null /\ aAcc.n < EXACT_MIN * Q
   THEN <<metricRow("Gate: A exactness", "FAIL (<1.0)", "", "", "warn")>> ELSE <<>>)
  \o (IF bAcc # Null /\ bAcc.n < EXACT_MIN * Q
      THEN <<metricRow("Gate: B exactness", "", "FAIL (<1.0)", "", "warn")>> ELSE <<>>)

HintRows(a, b) == HintRowsOf(HintAcc(a), HintAcc(b))

\* the rows render(a, b) leaves in the table body
render(a, b) ==
  <<GpuRow(a, b)>> \o [i \in 1..Len(MetricRows) |-> MetricRow(a, b, MetricRows[i])]
  \o HintRows(a, b)

-----------------------------------------------------------------------------
(* Inputs of the comparator *)

\* a profile gives each of the twelve metric rows its own value (in
\* quarters), so that a row reading another row's slot shows
ProfileA == [i \in 1..12 |-> 40 * i]
ProfileB == [i \in 1..12 |-> 40 * i + ((i % 3) - 1) * (2 * i + 1)]
ProfileL == [i \in 1..12 |-> 1000 + 7 * i]
ProfileM == [i \in 1..12 |-> IF i \in {6, 12} THEN 3 ELSE 1016 + 5 * i]
ProfileX == [i \in 1..12 |-> IF i = 6 THEN 3 ELSE IF i = 12 THEN 4 ELSE 90 * i]

\* the value of row i, with row `at` replaced by the value v
Leaf(prof, i, at, v) == IF i = at THEN v ELSE Num(prof[i])

VariantMetrics(prof, off, at, v) ==
  Obj(Opt("qps", Leaf(prof, off + 1, at, v)) @@ Opt("lat_p95_ms", Leaf(prof, off + 2, at, v))
      @@ Opt("joules_per_query", Leaf(prof, off + 3, at, v))
      @@ Opt("power_w_avg", Leaf(prof, off + 4, at, v))
      @@ Opt("gpu_util_pct_avg", Leaf(prof, off + 5, at, v))
      @@ Opt("top1_accuracy", Leaf(prof, off + 6, at, v)))

\* metrics of a v1 pack: row `at` holds v (at = 0: no row replaced)
FullMetrics(prof, at, v) ==
  Obj(("omega" :> VariantMetrics(prof, 0, at, v)) @@ ("baseline" :> VariantMetrics(prof, 6, at, v)))

VariantMeasured(prof, off, at, v) ==
  Obj(Opt("qps", Leaf(prof, off + 1, at, v))
      @@ ("latency_ms" :> Obj(Opt("p95", Leaf(prof, off + 2, at, v))))
      @@ ("energy" :> Obj(Opt("joules_per_query", Leaf(prof, off + 3, at, v))
                          @@ Opt("power_w_avg", Leaf(prof, off + 4, at, v))
                          @@ Opt("gpu_util_pct_avg", Leaf(prof, off + 5, at, v))))
      @@ ("accuracy" :> Obj(Opt("top1_accuracy", Leaf(prof, off + 6, at, v)))))

FullMeasured(prof, at, v) ==
  Obj(("ctdr" :> VariantMeasured(prof, 0, at, v))
      @@ ("baseline_vector_scan" :> VariantMeasured(prof, 6, at, v)))

GpuNamed(name) == Obj("name" :> name)

H100 == Str(<<"H", "1", "0", "0">>)

CmpCoerceVals ==
  {Undefined, Null, Bool(TRUE), Bool(FALSE), Str(<<>>), Str(<<"a", "b", "c">>),
   Str(<<"7", "0", ".", "5">>), Inf(FALSE), Arr(<<N(2, 0)>>), EmptyObj}

CmpPacks ==
  { MkPack(SCHEMA_V1, FullMetrics(ProfileA, 0, Null), FullMeasured(ProfileL, 0, Null), GpuNamed(H100), Undefined),
    MkPack(SCHEMA_V1, FullMetrics(ProfileB, 0, Null), FullMeasured(ProfileL, 0, Null), GpuNamed(Null), Undefined),
    MkPack(SCHEMA_V1, FullMetrics(ProfileX, 0, Null), Undefined, Undefined, Undefined),
    MkPack(Undefined, FullMetrics(ProfileA, 0, Null), FullMeasured(ProfileL, 0, Null), GpuNamed(N(80, 0)), Undefined),
    MkPack(Undefined, Undefined, FullMeasured(ProfileM, 0, Null), Undefined, Undefined),
    MkPack(SCHEMA_OTHER, FullMetrics(ProfileB, 0, Null), FullMeasured(ProfileA, 0, Null), Undefined, Undefined),
    MkPack(Null, FullMetrics(ProfileA, 0, Null), Undefined, Undefined, Undefined),
    MkPack(SCHEMA_V1, Undefined, FullMeasured(ProfileL, 0, Null), Undefined, Undefined),
    MkPack(SCHEMA_V1, Null, FullMeasured(ProfileM, 0, Null), Undefined, Undefined),
    MkPack(SCHEMA_V1, EmptyObj, FullMeasured(ProfileL, 0, Null), Undefined, Undefined),
    MkPack(SCHEMA_V1, Obj("omega" :> VariantMetrics(ProfileB, 0, 0, Null)), FullMeasured(ProfileL, 0, Null),
           Undefined, Undefined),
    MkPack(SCHEMA_V1, Obj(("omega" :> Null) @@ ("baseline" :> Str(<<"x">>))), Undefined, Undefined, Undefined),
    MkPack(Undefined, Undefined, Obj("ctdr" :> Null), Undefined, Undefined),
    MkPack(Undefined, Undefined,
           Obj(("ctdr" :> Obj(("qps" :> N(100, 0)) @@ ("energy" :> N(5, 0)) @@ ("accuracy" :> EmptyObj)))
               @@ ("baseline_vector_scan" :> Obj("latency_ms" :> Obj("p95" :> N(2, 2))))),
           Undefined, Undefined),
    MkPack(Undefined, Undefined,
           Obj("ctdr" :> Obj(("qps" :> N(150, 0)) @@ ("accuracy" :> Obj("top1_accuracy" :> N(1, 0))))),
           Undefined, Undefined),
    EmptyObj, Arr(<<>>), N(5, 0), Str(<<"p">>), Bool(TRUE) }
  \cup {MkPack(SCHEMA_V1, FullMetrics(ProfileA, 1, v), FullMeasured(ProfileL, 0, Null), Undefined, Undefined) :
          v \in CmpCoerceVals}
  \cup {MkPack(Undefined, FullMetrics(ProfileA, 0, Null), FullMeasured(ProfileL, 2, v), Undefined, Undefined) :
          v \in CmpCoerceVals}

\* a selected file: its text parses to a JSON value, or does not parse
FileOf(j) == [ok |-> TRUE, json |-> j]
BadFile == [ok |-> FALSE]

CmpFiles == {FileOf(j) : j \in CmpPacks} \cup {BadFile}

AuditFiles ==
  {BadFile, FileOf(Null), FileOf(EmptyObj),
   FileOf(MkPack(SCHEMA_V1, FullMetrics(ProfileX, 0, Null), Undefined,
                 Obj("power_limit_w" :> N(100, 0)), Undefined)),
   FileOf(Obj(("source" :> Obj("path" :> N(7, 0)))
              @@ ("metrics" :> FullMetrics(ProfileA, 0, Null))))}

-----------------------------------------------------------------------------
(* app.js: the telemetry panel.  The size of the canvas is set by the page
   markup, so a coordinate is kept as the quantity it is an affine image of:
   an x as the fraction (t - t0) / dt of the inner width, a y as the percent
   of the inner height.  The samples of t_s are JSON numbers, null or
   strings without "Infinity". *)

TEL_UTIL_MIN == 70
TEL_POWER_MAX_PCT == 85
TEL_TEMP_LO == 20
TEL_TEMP_HI == 90
TEL_MISSING_TEXT == "telemetry missing (pack did not include timeseries)"
GRID_LEVELS == <<0, 25, 50, 70, 85, 100>>

\* trackSel && trackSel.value ? trackSel.value : "omega"
TrackOf(sel) == IF sel # "" THEN sel ELSE "omega"

\* _safeArr(x)
safeArr(x) == IF x.t = "arr" THEN x ELSE Null

\* Math.max(0, Math.min(100, v)) of a quotient, an infinity or NaN
Clamp100(v) ==
  CASE v.t = "nan" -> NaN
    [] v.t = "inf" -> (IF v.neg THEN Quot(0, 1) ELSE Quot(100, 1))
    [] OTHER -> IF v.p <= 0 THEN Quot(0, 1) ELSE IF v.p >= 100 * v.q THEN Quot(100, 1) ELSE v

NormalizedTemp(t) ==
  IF t.t # "num" THEN Null
  ELSE Clamp100(Quot((t.n - TEL_TEMP_LO * Q) * 100, (TEL_TEMP_HI - TEL_TEMP_LO) * Q))

\* _normalizeTempC(tempC)
normalizeTempC(tempC) ==
  IF tempC.t \in {"null", "undef"} THEN Null ELSE NormalizedTemp(ToNumber(tempC))

\* Math.max(1e-9, t1 - t0): the difference when it is positive (a multiple of
\* 1/4), else the floor 1e-9, NaN when an end is not a number
Eps == [t |-> "eps"]
WindowOf(t0, t1) ==
  IF t0.t # "num" \/ t1.t # "num" THEN NaN
  ELSE IF t1.n - t0.n > 0 THEN Num(t1.n - t0.n) ELSE Eps

\* padL + ((ti - t0) / dt) * iw
XOf(ti, t0, dt) ==
  IF ti.t # "num" \/ t0.t # "num" \/ dt.t = "nan" THEN NaN
  ELSE [t |-> "x", n |-> ti.n - t0.n, d |-> dt]

\* padT + (1.0 - pct / 100.0) * ih, null for a null sample
YOf(pct) == IF pct = Null THEN Null ELSE [t |-> "y", pct |-> pct]

\* dt.toFixed(1)
WindowText(dt) ==
  CASE dt.t = "nan" -> "NaN"
    [] dt.t = "eps" -> "0.0"
    [] OTHER -> toFixed(dt.n, 1)

\* util && i < util.length ? _num(util[i]) : null   (i counted from 1)
SampleAt(series, i) ==
  IF series # Null /\ i <= Len(series.a) THEN num(series.a[i]) ELSE Null

\* temp && i < temp.length ? _normalizeTempC(temp[i]) : null
TempAt(series, i) ==
  IF series # Null /\ i <= Len(series.a) THEN normalizeTempC(series.a[i]) ELSE Null

PowerPctOf(p, pLimit) == IF p = Null THEN Null ELSE Quot(100 * p.n, pLimit.n)

\* p !== null ? (p / pLimit) * 100.0 : null
PowerPctAt(power_w, i, pLimit) == PowerPctOf(num(power_w.a[i]), pLimit)

UtilFailOf(u) == u # Null /\ u.n < TEL_UTIL_MIN * Q
PowerWarnOf(pPct) == pPct # Null /\ QuotGt(pPct, TEL_POWER_MAX_PCT, 1)

\* SampleFlagged with the thresholds themselves flagged
SampleFlaggedInclusive(u, pPct) ==
  \/ u # Null /\ u.n <= TEL_UTIL_MIN * Q
  \/ pPct # Null /\ (QuotGt(pPct, TEL_POWER_MAX_PCT, 1)
                     \/ (pPct.t = "quot" /\ pPct.p = TEL_POWER_MAX_PCT * pPct.q))

\* utilFail || powerWarn
SampleFlagged(u, pPct) == UtilFailOf(u) \/ PowerWarnOf(pPct)

FlaggedAt(util, power_w, pLimit, i) ==
  SampleFlagged(SampleAt(util, i), PowerPctAt(power_w, i, pLimit))

\* failSegments after the loop over the samples
FailSegments(n, util, power_w, pLimit) ==
  Cardinality({i \in 1..n : FlaggedAt(util, power_w, pLimit, i)})


\* the path _drawLine strokes: a null y ends the segment, the next point
\* starts a new one
PathStep(xs, ys, i) ==
  IF ys[i] = Null THEN [c |-> "skip"]
  ELSE [c |-> IF i = 1 \/ ys[i - 1] = Null THEN "moveTo" ELSE "lineTo", x |-> xs[i], y |-> ys[i]]

\* _drawLine(ctx, xs, ys, color, width)
drawLine(series, xs, ys) ==
  [op |-> "line", series |-> series, xs |-> xs, ys |-> ys,
   path |-> [i \in 1..Len(xs) |-> PathStep(xs, ys, i)]]

StripeOf(x, u, pPct) ==
  IF ~UtilFailOf(u) /\ ~PowerWarnOf(pPct) THEN [c |-> "skip"]
  ELSE [c |-> "fillRect", x |-> x, color |-> IF UtilFailOf(u) THEN "red" ELSE "amber"]

\* the stripes of the shading loop, one entry for each sample
Shading(xs, util, power_w, pLimit) ==
  [op |-> "shading",
   stripes |-> [i \in 1..Len(xs) |-> StripeOf(xs[i], SampleAt(util, i), PowerPctAt(power_w, i, pLimit))]]

PointsX(t_s, t0, dt) == [i \in 1..Len(t_s.a) |-> XOf(ToNumber(t_s.a[i]), t0, dt)]
PointsUtil(n, util) == [i \in 1..n |-> YOf(IF SampleAt(util, i) = Null THEN Null ELSE Quot(SampleAt(util, i).n, Q))]
PowerY(pPct) == YOf(IF pPct = Null THEN Null ELSE Clamp100(pPct))
PointsPower(n, power_w, pLimit) == [i \in 1..n |-> PowerY(PowerPctAt(power_w, i, pLimit))]
PointsTemp(n, temp) == [i \in 1..n |-> YOf(TempAt(temp, i))]

\* what is on the canvas after clearRect and the drawing of a valid track
ChartOps(xs, util, power_w, temp, pLimit) ==
  << [op |-> "grid", levels |-> GRID_LEVELS],
     Shading(xs, util, power_w, pLimit),
     drawLine("util", xs, PointsUtil(Len(xs), util)),
     drawLine("power", xs, PointsPower(Len(xs), power_w, pLimit)),
     drawLine("temp", xs, PointsTemp(Len(xs), temp)),
     [op |-> "labels", texts |-> <<"util%", "power%lim", "temp(norm)">>] >>

ChartStatus(track, n, dt, flagged) ==
  "telemetry: " \o track \o " | points=" \o ToString(n) \o " | window=" \o WindowText(dt)
  \o "s | flagged=" \o ToString(flagged)

ChartWindow(t_s) == WindowOf(ToNumber(t_s.a[1]), ToNumber(t_s.a[Len(t_s.a)]))

\* ChartOf without the clearRect: the new drawing goes over the old one
ChartOverOld(track, t_s, power_w, util, temp, pLimit, cv) ==
  [canvas |-> cv \o ChartOps(PointsX(t_s, ToNumber(t_s.a[1]), ChartWindow(t_s)), util, power_w, temp, pLimit),
   telStatus |-> ChartStatus(track, Len(t_s.a), ChartWindow(t_s),
                             FailSegments(Len(t_s.a), util, power_w, pLimit))]

\* renderTelemetry for a valid track: lines 116-205
ChartOf(track, t_s, power_w, util, temp, pLimit, cv) ==
  [canvas |-> ChartOps(PointsX(t_s, ToNumber(t_s.a[1]), ChartWindow(t_s)), util, power_w, temp, pLimit),
   telStatus |-> ChartStatus(track, Len(t_s.a), ChartWindow(t_s),
                             FailSegments(Len(t_s.a), util, power_w, pLimit))]

\* !t_s || !power_w || t_s.length === 0 || power_w.length !== t_s.length
TrackInvalid(t_s, power_w) ==
  t_s = Null \/ power_w = Null \/ Len(t_s.a) = 0 \/ Len(power_w.a) # Len(t_s.a)

\* renderTelemetry from line 109 on, tel an object or an array
TrackOfTel(track, tel, pLimit, cv) ==
  IF TrackInvalid(safeArr(Prop(tel, "t_s")), safeArr(Prop(tel, "power_w")))
  THEN [canvas |-> cv, telStatus |-> "telemetry: invalid (" \o track \o ")"]
  ELSE ChartOf(track, safeArr(Prop(tel, "t_s")), safeArr(Prop(tel, "power_w")),
               safeArr(Prop(tel, "gpu_util_pct")), safeArr(Prop(tel, "temp_c")), pLimit, cv)

\* !tel || typeof tel !== "object"
TelMissing(tel) == ~Truthy(tel) \/ tel.t \notin {"obj", "arr"}

TelemetryOf(track, tel, pLimit, cv) ==
  IF TelMissing(tel)
  THEN [canvas |-> <<[op |-> "text", text |-> TEL_MISSING_TEXT]>>,
        telStatus |-> "telemetry: missing (" \o track \o ")"]
  ELSE TrackOfTel(track, tel, pLimit, cv)

\* renderTelemetry(s) with the track selector at sel and the canvas holding
\* cv: what the canvas and #telemetryStatus hold afterwards
renderTelemetry(s, sel, cv) ==
  TelemetryOf(TrackOf(sel), getPath(s, <<"telemetry", TrackOf(sel), "gpu">>), AppPowerLimit(s), cv)

-----------------------------------------------------------------------------
(* Inputs of the telemetry panel *)

Seq3(a, b, c) == Arr(<<a, b, c>>)

\* telemetry.<track>.gpu with the four series; an undefined series is left out
TelGpu(t_s, power_w, util, temp) ==
  Obj(Opt("t_s", t_s) @@ Opt("power_w", power_w) @@ Opt("gpu_util_pct", util) @@ Opt("temp_c", temp))

T_S3 == Seq3(N(0, 0), N(1, 0), N(2, 0))
POWER3 == Seq3(N(300, 0), N(400, 0), N(300, 0))
UTIL3 == Seq3(N(70, 0), N(69, 3), N(90, 0))
TEMP3 == Seq3(N(20, 0), N(55, 0), N(95, 0))

TsVals ==
  {Undefined, Null, N(3, 0), Arr(<<>>), T_S3, Arr(<<N(5, 0)>>), Seq3(N(1, 2), N(1, 2), N(1, 2)),
   Seq3(Null, Str(<<"1", ".", "5">>), N(4, 0)), Seq3(N(0, 0), N(1, 0), Str(<<"x">>)),
   Arr(<<N(0, 0), N(10, 0)>>)}

PowerVals ==
  {Undefined, Str(<<"3", "0", "0">>), Arr(<<>>), POWER3, Seq3(N(297, 2), N(297, 3), N(0, 0)),
   Arr(<<N(400, 0)>>), Arr(<<N(300, 0), N(300, 0)>>), Seq3(Null, Str(<<"a">>), Bool(TRUE)),
   Arr(<<N(300, 0), N(300, 0), N(300, 0), N(300, 0)>>)}

UtilVals ==
  {Undefined, N(50, 0), UTIL3, Seq3(N(70, 0), N(70, 0), N(70, 0)), Arr(<<N(60, 0)>>),
   Seq3(Null, Str(<<"6", "9">>), N(100, 0)), Arr(<<N(50, 0), N(50, 0), N(50, 0), N(50, 0)>>)}

TempVals == {Undefined, TEMP3, Arr(<<N(55, 0)>>), Seq3(Null, Str(<<"h">>), N(10, 0))}

LimitVals == {Undefined, N(350, 0), N(400, 0), N(0, 0), N(0 - 100, 0)}

ValidTrack == TelGpu(T_S3, POWER3, UTIL3, TEMP3)

\* the gpu object of a track: every pair of t_s and power_w, every pair of
\* utilization and temperature series on valid samples, and values that are
\* no telemetry object
TelTracks ==
  {TelGpu(t, p, UTIL3, TEMP3) : t \in TsVals, p \in PowerVals}
  \cup {TelGpu(T_S3, p, u, c) : p \in {POWER3, Seq3(N(297, 2), N(297, 3), N(0, 0))}, u \in UtilVals, c \in TempVals}
  \cup {Undefined, Null, N(5, 0), Str(<<"t">>), Bool(TRUE), Arr(<<>>), EmptyObj}

TrackEntry(gpu) == IF gpu = Undefined THEN Undefined ELSE Obj("gpu" :> gpu)

MemoPassing == Obj("memoization_prefix_range" :> Obj("data" :> MemoData(N(150, 0), Undefined)))

GpuLimit(limit) == IF limit = Undefined THEN Undefined ELSE Obj("power_limit_w" :> limit)

\* the pack with its telemetry replaced (left out when undefined)
WithTelemetry(pack, tel) ==
  Obj(Opt("telemetry", tel) @@ [k \in DOMAIN pack.f \ {"telemetry"} |-> pack.f[k]])

TelPackOf(limit, omega, baseline) ==
  WithTelemetry(MkPack(SCHEMA_V1, FullMetrics(ProfileA, 0, Null), Undefined, GpuLimit(limit), MemoPassing),
                Obj(Opt("omega", TrackEntry(omega)) @@ Opt("baseline", TrackEntry(baseline))))

TelPacks ==
  {TelPackOf(l, o, ValidTrack) : l \in {Undefined, N(400, 0)}, o \in TelTracks}
  \cup {TelPackOf(l, ValidTrack, b) : l \in LimitVals, b \in {Undefined, ValidTrack, TelGpu(T_S3, Undefined, UTIL3, TEMP3)}}
  \cup {TelPackOf(l, TelGpu(T_S3, p, UTIL3, Undefined), Undefined) :
          l \in LimitVals, p \in {POWER3, Seq3(N(297, 2), N(297, 3), N(0, 0))}}
  \cup {MkPack(SCHEMA_V1, FullMetrics(ProfileA, 0, Null), Undefined, Undefined, MemoPassing),
        WithTelemetry(EmptyObj, Null), WithTelemetry(EmptyObj, Arr(<<>>)),
        WithTelemetry(EmptyObj, Obj("omega" :> N(1, 0))), Undefined, Null}

TrackValues == {"", "omega", "baseline"}

Dates == {"2025-01-31", "2025-02-01"}

TelFiles ==
  {BadFile, FileOf(TelPackOf(Undefined, ValidTrack, Undefined)),
   FileOf(TelPackOf(N(500, 0), TelGpu(T_S3, Arr(<<>>), UTIL3, TEMP3), ValidTrack))}

-----------------------------------------------------------------------------
(* State *)

VARIABLES
  pc,          \* audit view: "boot" before main() ran, then "ready" or "crashed";
               \* "compare" in a session of the comparator page
  summary,     \* window.SIGMA_PUBLIC_SUMMARY, the bundled pack
  lastPack,    \* window.__SIGMA_LAST_PACK
  gates,       \* the four gate elements: class and text
  gatePack,    \* history: the pack the displayed gates were computed from
  srcSha,      \* text of #src-sha
  packA,       \* comparator slot A
  packB,       \* comparator slot B
  tbody,       \* rows of #cmpTable tbody
  shown,       \* history: the pair of packs tbody was rendered from
  status,      \* text of #status
  track,       \* value of the #telemetryTrack selector
  canvas,      \* what is drawn on #telemetryCanvas since it was last cleared
  telStatus,   \* text of #telemetryStatus
  telPack,     \* history: the pack renderTelemetry was last called with
  exported,    \* the text of the last exported receipt
  reads,       \* the file reads in flight, in the order of their selection
  picked       \* history: the file last selected for each target

telVars == <<track, canvas, telStatus, telPack>>
auditVars == <<pc, summary, lastPack, gates, gatePack, srcSha, track, canvas, telStatus, telPack, exported>>
cmpVars == <<packA, packB, tbody, shown, status>>
readVars == <<reads, picked>>
vars == <<pc, summary, lastPack, gates, gatePack, srcSha, packA, packB, tbody, shown, status,
          track, canvas, telStatus, telPack, exported, reads, picked>>

NoGate == [cls |-> "", text |-> ""]
NoPair == <<>>
NoCall == [t |-> "none"]
NoExport == [t |-> "none"]
NoFile == [t |-> "none"]
Targets == {"A", "B", "pack"}

InitAuditView ==
  /\ lastPack = Undefined
  /\ gates = [g \in GateIds |-> NoGate]
  /\ gatePack = Undefined
  /\ srcSha = ""
  /\ canvas = <<>>
  /\ telStatus = ""
  /\ telPack = NoCall
  /\ exported = NoExport
  /\ reads = <<>>
  /\ picked = [g \in Targets |-> NoFile]

InitCmpView ==
  /\ packA = Null
  /\ packB = Null
  /\ tbody = <<>>
  /\ shown = NoPair
  /\ status = ""

-----------------------------------------------------------------------------
(* app.js: handlers *)

\* renderSummary stopping at renderTelemetry when the omega track is missing
renderSummaryStopsAtTelemetry(s) ==
  IF ~Truthy(s) THEN
    [threw |-> FALSE, lastPack |-> lastPack, gates |-> gates, gatePack |-> gatePack,
     srcSha |-> SHA_MISSING, tel |-> [canvas |-> canvas, telStatus |-> telStatus], telPack |-> telPack]
  ELSE IF SrcThrows(s) THEN
    [threw |-> TRUE, lastPack |-> s, gates |-> gates, gatePack |-> gatePack, srcSha |-> srcSha,
     tel |-> [canvas |-> canvas, telStatus |-> telStatus], telPack |-> telPack]
  ELSE
    [threw |-> FALSE, lastPack |-> s,
     gates |-> IF renderTelemetry(s, track, canvas).canvas = canvas
               THEN [GatesOf(s) EXCEPT !["gate-memo"] = gates["gate-memo"]] ELSE GatesOf(s),
     gatePack |-> s, srcSha |-> ShaText(s),
     tel |-> renderTelemetry(s, track, canvas), telPack |-> s]

\* renderSummary(s): the values it leaves, and whether it threw.  The last
\* pack is stored before the source link is computed; the gates are set
\* after it.
renderSummary(s) ==
  IF ~Truthy(s) THEN
    [threw |-> FALSE, lastPack |-> lastPack, gates |-> gates, gatePack |-> gatePack,
     srcSha |-> SHA_MISSING, tel |-> [canvas |-> canvas, telStatus |-> telStatus], telPack |-> telPack]
  ELSE IF SrcThrows(s) THEN
    [threw |-> TRUE, lastPack |-> s, gates |-> gates, gatePack |-> gatePack, srcSha |-> srcSha,
     tel |-> [canvas |-> canvas, telStatus |-> telStatus], telPack |-> telPack]
  ELSE
    [threw |-> FALSE, lastPack |-> s, gates |-> GatesOf(s), gatePack |-> s, srcSha |-> ShaText(s),
     tel |-> renderTelemetry(s, track, canvas), telPack |-> s]

\* line 302: renderTelemetry(window.SIGMA_PUBLIC_SUMMARY) after renderSummary
MainTelemetry(r) ==
  IF r.threw THEN r.tel ELSE renderTelemetry(summary, track, r.tel.canvas)

MainOutcome(r) ==
  /\ lastPack' = r.lastPack
  /\ gates' = r.gates
  /\ gatePack' = r.gatePack
  /\ srcSha' = r.srcSha
  /\ canvas' = MainTelemetry(r).canvas
  /\ telStatus' = MainTelemetry(r).telStatus
  /\ telPack' = IF r.threw THEN r.telPack ELSE summary
  /\ pc' = IF r.threw THEN "crashed" ELSE "ready"

\* main(): render the bundled summary, then register the handlers.  An
\* exception of renderSummary ends main before any handler is registered.
Main ==
  /\ pc = "boot"
  /\ MainOutcome(renderSummary(summary))
  /\ UNCHANGED <<summary, track, exported, packA, packB, tbody, shown, status, reads, picked>>

LoadOutcome(r) ==
  /\ lastPack' = r.lastPack
  /\ gates' = r.gates
  /\ gatePack' = r.gatePack
  /\ srcSha' = IF r.threw THEN SHA_FAILED ELSE r.srcSha
  /\ canvas' = r.tel.canvas
  /\ telStatus' = r.tel.telStatus
  /\ telPack' = r.telPack

\* PackFileResume with the gates blanked by a failure
PackFileResumeBlank(file) ==
  /\ IF ~file.ok THEN
       /\ srcSha' = SHA_FAILED
       /\ gates' = [g \in GateIds |-> NoGate]
       /\ UNCHANGED <<lastPack, gatePack, canvas, telStatus, telPack>>
     ELSE LoadOutcome(renderSummary(file.json))
  /\ UNCHANGED <<pc, summary, track, exported, packA, packB, tbody, shown, status>>

\* the change handler of #packFile from the completion of the read on:
\* JSON.parse and renderSummary inside try, the failure text in catch
PackFileResume(file) ==
  /\ IF ~file.ok THEN
       /\ srcSha' = SHA_FAILED
       /\ UNCHANGED <<lastPack, gates, gatePack, canvas, telStatus, telPack>>
     ELSE LoadOutcome(renderSummary(file.json))
  /\ UNCHANGED <<pc, summary, track, exported, packA, packB, tbody, shown, status>>

\* the change handler of #packFile with no other event before the read
\* completes
PackFileChange(file) ==
  /\ pc = "ready"
  /\ PackFileResume(file)
  /\ UNCHANGED readVars

InitAudit == pc = "boot" /\ summary \in AuditPacks /\ track = "omega" /\ InitAuditView /\ InitCmpView

NextAudit == Main \/ \E file \in AuditFiles : PackFileChange(file)

SpecAudit == InitAudit /\ [][NextAudit]_vars

-----------------------------------------------------------------------------
(* app.js: track selector and export *)

TrackOutcome(data, r) ==
  /\ canvas' = r.canvas
  /\ telStatus' = r.telStatus
  /\ telPack' = data

\* TrackChange re-rendering the bundled summary whatever was loaded
TrackChangeSummary(sel) ==
  /\ pc = "ready"
  /\ sel # track
  /\ track' = sel
  /\ TrackOutcome(summary, renderTelemetry(summary, sel, canvas))
  /\ UNCHANGED <<pc, summary, lastPack, gates, gatePack, srcSha, exported>>
  /\ UNCHANGED <<cmpVars, readVars>>

\* the change handler of #telemetryTrack
TrackChange(sel) ==
  /\ pc = "ready"
  /\ sel # track
  /\ track' = sel
  /\ TrackOutcome(OrElse(lastPack, summary), renderTelemetry(OrElse(lastPack, summary), sel, canvas))
  /\ UNCHANGED <<pc, summary, lastPack, gates, gatePack, srcSha, exported>>
  /\ UNCHANGED <<cmpVars, readVars>>

\* JSON.stringify(x, null, 2): the document written, as its syntax tree.
\* undefined, NaN and the infinities have no JSON form.
RECURSIVE stringify(_)
stringify(x) ==
  CASE x.t \in {"undef", "null", "nan", "inf"} -> [k |-> "null"]
    [] x.t = "bool" -> [k |-> IF x.b THEN "true" ELSE "false"]
    [] x.t = "num" -> [k |-> "number", n |-> x.n]
    [] x.t = "str" -> [k |-> "string", s |-> x.s]
    [] x.t = "arr" -> [k |-> "array", items |-> [i \in 1..Len(x.a) |-> stringify(x.a[i])]]
    [] x.t = "obj" ->
         [k |-> "object",
          members |-> [m \in {m \in DOMAIN x.f : x.f[m].t # "undef"} |-> stringify(x.f[m])]]

\* JSON.parse of a document
RECURSIVE JSONparse(_)
JSONparse(d) ==
  CASE d.k = "null" -> Null
    [] d.k = "true" -> Bool(TRUE)
    [] d.k = "false" -> Bool(FALSE)
    [] d.k = "number" -> Num(d.n)
    [] d.k = "string" -> Str(d.s)
    [] d.k = "array" -> Arr([i \in 1..Len(d.items) |-> JSONparse(d.items[i])])
    [] d.k = "object" -> Obj([m \in DOMAIN d.members |-> JSONparse(d.members[m])])

ReceiptOf(data, date) ==
  [download |-> "audit_receipt_" \o date \o ".json", text |-> stringify(data)]

\* ExportClick exporting the bundled summary whatever was loaded
ExportClickSummary(date) ==
  /\ pc = "ready"
  /\ exported' = IF ~Truthy(summary) THEN exported ELSE ReceiptOf(summary, date)
  /\ UNCHANGED <<pc, summary, lastPack, gates, gatePack, srcSha, telVars>>
  /\ UNCHANGED <<cmpVars, readVars>>

\* the click handler of #exportBtn; date is the day of the click
ExportClick(date) ==
  /\ pc = "ready"
  /\ exported' = IF ~Truthy(OrElse(lastPack, summary)) THEN exported
                 ELSE ReceiptOf(OrElse(lastPack, summary), date)
  /\ UNCHANGED <<pc, summary, lastPack, gates, gatePack, srcSha, telVars>>
  /\ UNCHANGED <<cmpVars, readVars>>

InitTelemetry ==
  pc = "boot" /\ summary \in TelPacks /\ track \in TrackValues /\ InitAuditView /\ InitCmpView

NextTelemetry ==
  \/ Main
  \/ \E sel \in TrackValues : TrackChange(sel)
  \/ \E file \in TelFiles : PackFileChange(file)

SpecTelemetry == InitTelemetry /\ [][NextTelemetry]_vars

-----------------------------------------------------------------------------
(* compare.js: handlers *)

\* onPickResume with the other slot cleared by a load
onPickResumeClearing(which, file) ==
  /\ IF ~file.ok THEN
       /\ status' = STATUS_FAILED
       /\ UNCHANGED <<packA, packB, tbody, shown>>
     ELSE
       /\ packA' = IF which = "A" THEN file.json ELSE Null
       /\ packB' = IF which = "A" THEN Null ELSE file.json
       /\ status' = STATUS_ONE
       /\ UNCHANGED <<tbody, shown>>
  /\ UNCHANGED auditVars

\* onPickResume rendering as soon as one slot is populated
onPickResumeEager(which, file) ==
  /\ IF ~file.ok THEN
       /\ status' = STATUS_FAILED
       /\ UNCHANGED <<packA, packB, tbody, shown>>
     ELSE
       /\ packA' = IF which = "A" THEN file.json ELSE packA
       /\ packB' = IF which = "A" THEN packB ELSE file.json
       /\ IF Truthy(packA') \/ Truthy(packB') THEN
            /\ status' = STATUS_BOTH
            /\ tbody' = render(packA', packB')
            /\ shown' = <<packA', packB'>>
          ELSE
            /\ status' = STATUS_ONE
            /\ UNCHANGED <<tbody, shown>>
  /\ UNCHANGED auditVars

\* onPick(which, file) from the completion of the read on
onPickResume(which, file) ==
  /\ IF ~file.ok THEN
       /\ status' = STATUS_FAILED
       /\ UNCHANGED <<packA, packB, tbody, shown>>
     ELSE
       /\ packA' = IF which = "A" THEN file.json ELSE packA
       /\ packB' = IF which = "A" THEN packB ELSE file.json
       /\ IF Truthy(packA') /\ Truthy(packB') THEN
            /\ status' = STATUS_BOTH
            /\ tbody' = render(packA', packB')
            /\ shown' = <<packA', packB'>>
          ELSE
            /\ status' = STATUS_ONE
            /\ UNCHANGED <<tbody, shown>>
  /\ UNCHANGED auditVars

\* onPick(which, file) with no other event before the read completes
onPick(which, file) == onPickResume(which, file) /\ UNCHANGED readVars

InitCompare == pc = "boot" /\ summary = Undefined /\ track = "omega" /\ InitAuditView /\ InitCmpView

NextCompare == \E which \in {"A", "B"}, file \in CmpFiles : onPick(which, file)

SpecCompare == InitCompare /\ [][NextCompare]_vars

-----------------------------------------------------------------------------
(* Both views on one pack: the bundled summary is rendered by main() and the
   same file is picked for both slots of the comparator *)

ResolvePacks == AuditPacks \cup CmpPacks

InitResolve ==
  pc = "boot" /\ summary \in ResolvePacks /\ track = "omega" /\ InitAuditView /\ InitCmpView

NextResolve == Main \/ \E which \in {"A", "B"} : onPick(which, FileOf(summary))

SpecResolve == InitResolve /\ [][NextResolve]_vars

-----------------------------------------------------------------------------
(* A session of one page: the selections start reads that complete later,
   in any order *)

MaxReads == 2

PackG1 == TelPackOf(N(350, 0), ValidTrack, TelGpu(T_S3, Undefined, UTIL3, TEMP3))
PackG2 == MkPack(Undefined, Undefined, FullMeasured(ProfileM, 0, Null), Undefined, Undefined)
PackP1 == MkPack(SCHEMA_V1, FullMetrics(ProfileA, 0, Null), FullMeasured(ProfileL, 0, Null), GpuNamed(H100), Undefined)
PackP2 == MkPack(Undefined, Undefined, FullMeasured(ProfileM, 0, Null), Undefined, Undefined)

PackX == Obj(("source" :> Obj("path" :> N(7, 0))) @@ ("metrics" :> FullMetrics(ProfileA, 0, Null)))
SessionSummaries == {Undefined, TelPackOf(Undefined, ValidTrack, Undefined), PackX}
SessionPackFiles == {BadFile, FileOf(PackG1), FileOf(PackG2), FileOf(Null), FileOf(PackX)}
SessionCmpFiles == {BadFile, FileOf(PackP1), FileOf(PackP2), FileOf(Null)}

ReadOf(target, file) == [target |-> target, file |-> file]

RemoveAt(q, i) == SubSeq(q, 1, i - 1) \o SubSeq(q, i + 1, Len(q))

StartRead(target, file) ==
  /\ Len(reads) < MaxReads
  /\ reads' = Append(reads, ReadOf(target, file))
  /\ picked' = [picked EXCEPT ![target] = file]

\* change event of #packFile: the handler runs up to `await file.text()`
SelectPack(file) ==
  /\ pc = "ready"
  /\ StartRead("pack", file)
  /\ UNCHANGED <<auditVars, cmpVars>>

\* the read of the selected pack file completes and the handler resumes
PackReadDone(i) ==
  /\ reads[i].target = "pack"
  /\ reads' = RemoveAt(reads, i)
  /\ PackFileResume(reads[i].file)
  /\ UNCHANGED picked

\* change event of #fileA or #fileB: onPick runs up to `await file.text()`
PickFile(which, file) ==
  /\ pc = "compare"
  /\ StartRead(which, file)
  /\ UNCHANGED <<auditVars, cmpVars>>

\* the read of readJsonFile completes and onPick resumes
PickReadDone(i) ==
  /\ reads[i].target \in {"A", "B"}
  /\ reads' = RemoveAt(reads, i)
  /\ onPickResume(reads[i].target, reads[i].file)
  /\ UNCHANGED picked

InitSession ==
  /\ \/ pc = "boot" /\ summary \in SessionSummaries
     \/ pc = "compare" /\ summary = Undefined
  /\ track = "omega"
  /\ InitAuditView
  /\ InitCmpView

NextSession ==
  \/ Main
  \/ \E file \in SessionPackFiles : SelectPack(file)
  \/ \E i \in 1..Len(reads) : PackReadDone(i)
  \/ \E sel \in TrackValues : TrackChange(sel)
  \/ \E date \in Dates : ExportClick(date)
  \/ \E which \in {"A", "B"}, file \in SessionCmpFiles : PickFile(which, file)
  \/ \E i \in 1..Len(reads) : PickReadDone(i)

SpecSession == InitSession /\ [][NextSession]_vars

-----------------------------------------------------------------------------
(* Properties of the gates (audit view) *)

\* the values the gate evaluator resolved for the pack the gates show
AccB == AppMetric(gatePack, P_M_ACC_B, P_L_ACC_B)
AccO == AppMetric(gatePack, P_M_ACC_O, P_L_ACC_O)
UtilB == AppMetric(gatePack, P_M_UTIL_B, P_L_UTIL_B)
UtilO == AppMetric(gatePack, P_M_UTIL_O, P_L_UTIL_O)
PowO == AppMetric(gatePack, P_M_POW_O, P_L_POW_O)
GatesSet == gatePack # Undefined

\* C1: the exactness gate is pass exactly when both the baseline and the
\* candidate top1_accuracy resolve and both are >= 1.0 (1.0 included), and
\* fail in every other case.
C1_ExactnessGate ==
  GatesSet =>
    gates["gate-exactness"].cls =
      IF AccB # Null /\ AccO # Null /\ AccB.n >= 4 /\ AccO.n >= 4 THEN "pass" ELSE "fail"

C1_Witness ==
  /\ GatesSet /\ AccB = Num(4) /\ AccO = Num(4)
  /\ gates["gate-exactness"].cls = "pass"

\* C2: the utilization gate is pass exactly when the candidate
\* gpu_util_pct_avg resolves and is >= 70.0 (70.0 included), else fail; it
\* is a function of the candidate value alone, and a present value is shown
\* with one decimal and a percent sign (65.0 gives "65.0%").
C2_UtilGate ==
  GatesSet =>
    /\ gates["gate-util"].cls = IF UtilO # Null /\ UtilO.n >= 280 THEN "pass" ELSE "fail"
    /\ UtilO # Null =>
         gates["gate-util"].text = Upper(gates["gate-util"].cls) \o " -- " \o toFixed(UtilO.n, 1) \o "%"
    /\ UtilO = Num(260) => gates["gate-util"].text = "FAIL -- 65.0%"
    /\ UtilO = Num(279) => gates["gate-util"].text = "FAIL -- 69.8%"

C2_Witness ==
  /\ GatesSet /\ UtilO = Num(280) /\ UtilB = Num(260)
  /\ gates["gate-util"] = [cls |-> "pass", text |-> "PASS -- 70.0%"]

\* C3: the power gate is pass exactly when the candidate power_w_avg
\* resolves and power_w_avg / power_limit_w <= 0.85 (0.85 included), with
\* power_limit_w the pack's gpu.power_limit_w or 350.0 when that is absent;
\* otherwise it is warn, never fail.  The division is JavaScript's: by a
\* negative limit it reverses the order, by zero it gives -Infinity for a
\* negative power and no ratio <= 0.85 otherwise.
C3_PowerLimit ==
  LET lim == num(getPath(gatePack, P_LIMIT)) IN IF lim = Null THEN 350 * 4 ELSE lim.n

C3_RatioOk ==
  /\ PowO # Null
  /\ \/ C3_PowerLimit > 0 /\ 100 * PowO.n <= 85 * C3_PowerLimit
     \/ C3_PowerLimit < 0 /\ 100 * PowO.n >= 85 * C3_PowerLimit
     \/ C3_PowerLimit = 0 /\ PowO.n < 0

C3_PowerGate ==
  GatesSet => gates["gate-power"].cls = IF C3_RatioOk THEN "pass" ELSE "warn"

C3_Witness ==
  /\ GatesSet /\ PowO = Num(1190) /\ getPath(gatePack, P_LIMIT) = Undefined
  /\ gates["gate-power"].cls = "pass"

\* C4: the memoization gate is warn when the track data is absent (missing,
\* null or an empty scalar); with the track present it is pass exactly when
\* the ratio resolves and is >= min_energy_ratio (the pack's, or 100.0 when
\* that is absent), and fail otherwise.
C4_MinRatio ==
  LET m == num(getPath(gatePack, P_MEMO_MIN)) IN IF m = Null THEN 100 * 4 ELSE m.n

C4_Ratio == num(getPath(gatePack, P_MEMO_RATIO))

C4_TrackAbsent == ~Truthy(getPath(gatePack, P_MEMO))

C4_MemoGate ==
  GatesSet =>
    gates["gate-memo"].cls =
      IF C4_TrackAbsent THEN "warn"
      ELSE IF C4_Ratio # Null /\ C4_Ratio.n >= C4_MinRatio THEN "pass" ELSE "fail"

C4_Witness ==
  /\ GatesSet /\ ~C4_TrackAbsent
  /\ C4_Ratio = Num(200) /\ C4_MinRatio = 200 /\ getPath(gatePack, P_MEMO_MIN) # Undefined
  /\ gates["gate-memo"].cls = "pass"

\* C5: a gate whose required metric is absent is warn or fail, never pass,
\* and its detail is an explicit "missing" indication.
C5_MissingTexts == {"FAIL -- missing", "WARN -- missing", "WARN -- missing track", "FAIL -- missing track"}

C5_ShowsMissing(g) == gates[g].cls \in {"warn", "fail"} /\ gates[g].text \in C5_MissingTexts

C5_AbsentMetricShowsMissing ==
  GatesSet =>
    /\ (AccB = Null \/ AccO = Null) => C5_ShowsMissing("gate-exactness")
    /\ UtilO = Null => C5_ShowsMissing("gate-util")
    /\ PowO = Null => C5_ShowsMissing("gate-power")
    /\ (C4_TrackAbsent \/ C4_Ratio = Null) => C5_ShowsMissing("gate-memo")

-----------------------------------------------------------------------------
(* Properties of the comparison table *)

Rendered == shown # NoPair

\* the values of metric row i for the two packs the table was rendered from
ShownA(i) == RowValue(shown[1], MetricRows[i])
ShownB(i) == RowValue(shown[2], MetricRows[i])

\* the table row of metric row i (the GPU-name row is the first table row)
TableRow(i) == tbody[i + 1]

\* C6: in every metric row, delta is B minus A when both values resolve;
\* when either is absent the delta cell is the placeholder and the row has
\* no win/lose/tie class.
C6_Delta ==
  Rendered =>
    \A i \in 1..12 :
      IF ShownA(i) # Null /\ ShownB(i) # Null
      THEN TableRow(i).delta = toFixed(ShownB(i).n - ShownA(i).n, MetricRows[i].fmtDec)
      ELSE TableRow(i).delta = "--" /\ TableRow(i).cls = ""

C6_Witness ==
  /\ Rendered
  /\ ShownA(1) = Num(400) /\ ShownB(1) = Num(600) /\ TableRow(1).delta = "50.000"
  /\ ShownA(2) = Null /\ ShownB(2) = Null /\ TableRow(2).delta = "--" /\ TableRow(2).cls = ""
  /\ \E i \in 1..12 : ShownA(i) # Null /\ ShownB(i) = Null /\ TableRow(i).delta = "--"

\* C7: the class of a row is decided by its delta and its direction alone:
\* for latency, J/query and power a negative delta is win, a positive one
\* lose; for qps, utilization and accuracy a positive delta is win, a
\* negative one lose; zero is tie; an absent delta and the GPU-name row have
\* no class.  A qps = 100 and B qps = 150 give delta 50 and win.
C7_LowerIsBetter == {2, 3, 4, 8, 9, 10}

C7_Sign(i) ==
  IF ShownB(i).n > ShownA(i).n THEN 1 ELSE IF ShownB(i).n < ShownA(i).n THEN 0 - 1 ELSE 0

C7_Expected(i) ==
  IF ShownA(i) = Null \/ ShownB(i) = Null THEN ""
  ELSE IF C7_Sign(i) = 0 THEN "tie"
  ELSE IF (i \in C7_LowerIsBetter) = (C7_Sign(i) < 0) THEN "win" ELSE "lose"

C7_Classify ==
  Rendered =>
    /\ tbody[1].cls = "" /\ tbody[1].delta = "--"
    /\ \A i \in 1..12 : TableRow(i).cls = C7_Expected(i)

C7_Witness ==
  /\ Rendered
  /\ ShownA(1) = Num(400) /\ ShownB(1) = Num(600)
  /\ TableRow(1).label = "CTDR/Omega QPS" /\ TableRow(1).delta = "50.000" /\ TableRow(1).cls = "win"

\* every class occurs in one table, for both directions
C7_AllClasses ==
  /\ Rendered
  /\ \A c \in {"win", "lose", "tie"} :
       /\ \E i \in C7_LowerIsBetter : TableRow(i).cls = c
       /\ \E i \in (1..12) \ C7_LowerIsBetter : TableRow(i).cls = c

-----------------------------------------------------------------------------
(* Properties of the metric resolution (both views) *)

\* the pack carries the schema tag of Pack Standard v1
V1Tagged(p) == Prop(p, "schema") = SCHEMA_V1

\* metrics[which][key] of the pack, undefined when any part is missing
MetricLeaf(p, which, key) == Prop(Prop(Prop(p, "metrics"), which), key)

IsNumber(x) == x.t = "num"

\* the text of a gate with the given class and detail
GateShows(g, cls, detail) == gates[g] = [cls |-> cls, text |-> Upper(cls) \o " -- " \o detail]

\* C8: for a pack tagged sigma_summary_public_v1, a metric whose
\* metrics[variant][metric] is a number is shown by the comparator and used
\* by the gates with exactly that value, whatever the legacy path holds.
C8_CmpSide(p, cell(_)) ==
  \A i \in 1..12 :
    LET x == MetricLeaf(p, MetricRows[i].which, MetricRows[i].key) IN
    V1Tagged(p) /\ IsNumber(x) => cell(i) = toFixed(x.n, MetricRows[i].fmtDec)

C8_CellA(i) == TableRow(i).a
C8_CellB(i) == TableRow(i).b

C8_Gates(p) ==
  LET u == MetricLeaf(p, "omega", "gpu_util_pct_avg")
      w == MetricLeaf(p, "omega", "power_w_avg")
      aB == MetricLeaf(p, "baseline", "top1_accuracy")
      aO == MetricLeaf(p, "omega", "top1_accuracy")
  IN
  /\ IsNumber(u) => GateShows("gate-util", IF u.n >= 280 THEN "pass" ELSE "fail", toFixed(u.n, 1) \o "%")
  /\ IsNumber(w) /\ C3_PowerLimit = 1400 =>
       GateShows("gate-power", IF 100 * w.n <= 85 * 1400 THEN "pass" ELSE "warn",
                 toFixed(w.n, 0) \o "W / 350W")
  /\ IsNumber(aB) /\ IsNumber(aO) =>
       gates["gate-exactness"].cls = IF aB.n >= 4 /\ aO.n >= 4 THEN "pass" ELSE "fail"
  /\ (IsNumber(aB) /\ aB.n < 4) \/ (IsNumber(aO) /\ aO.n < 4) => gates["gate-exactness"].cls = "fail"

C8_V1TierUsed ==
  /\ Rendered => C8_CmpSide(shown[1], C8_CellA) /\ C8_CmpSide(shown[2], C8_CellB)
  /\ GatesSet /\ V1Tagged(gatePack) => C8_Gates(gatePack)

\* a v1 pack whose two tiers differ in every metric, shown in both views
C8_Witness ==
  /\ Rendered /\ GatesSet /\ shown = <<gatePack, gatePack>> /\ V1Tagged(gatePack)
  /\ \A i \in 1..12 :
       /\ IsNumber(MetricLeaf(gatePack, MetricRows[i].which, MetricRows[i].key))
       /\ IsNumber(getPath(gatePack, MetricRows[i].path))
       /\ getPath(gatePack, MetricRows[i].path) # MetricLeaf(gatePack, MetricRows[i].which, MetricRows[i].key)
  /\ MetricLeaf(gatePack, "omega", "gpu_util_pct_avg") = Num(200)
  /\ getPath(gatePack, P_L_UTIL_O) = Num(1035)
  /\ TableRow(5).a = "50.0" /\ gates["gate-util"].text = "FAIL -- 50.0%"

\* C9: for a pack without the v1 schema tag, every metric of the comparator
\* and of the gates is resolved through its legacy dotted path, also when
\* the pack has a metrics object, and is absent when a segment is missing.
C9_CmpSide(p, cell(_)) ==
  \A i \in 1..12 :
    ~V1Tagged(p) => cell(i) = FmtNum(num(getPath(p, MetricRows[i].path)), MetricRows[i].fmtDec)

C9_Gates(p) ==
  LET u == num(getPath(p, P_L_UTIL_O))
      aB == num(getPath(p, P_L_ACC_B))
      aO == num(getPath(p, P_L_ACC_O))
  IN
  /\ IF u = Null THEN GateShows("gate-util", "fail", "missing")
     ELSE GateShows("gate-util", IF u.n >= 280 THEN "pass" ELSE "fail", toFixed(u.n, 1) \o "%")
  /\ gates["gate-exactness"].cls =
       IF aB # Null /\ aO # Null /\ aB.n >= 4 /\ aO.n >= 4 THEN "pass" ELSE "fail"

C9_LegacyWhenUntagged ==
  /\ Rendered => C9_CmpSide(shown[1], C8_CellA) /\ C9_CmpSide(shown[2], C8_CellB)
  /\ GatesSet /\ ~V1Tagged(gatePack) => C9_Gates(gatePack)

\* C10: the coercion returns absent for null, a missing value, a boolean and
\* a non-numeric string, so such a value is shown as the placeholder by the
\* comparator and as "missing" by the utilization gate.
C10_Rejected(x) ==
  \/ x.t \in {"undef", "null", "bool"}
  \/ x.t = "str" /\ x.s # <<>> /\ \E k \in 1..Len(x.s) : ~IsDigit(x.s[k]) /\ x.s[k] \notin {".", "-", "+", " "}

C10_CmpSide(p, cell(_)) ==
  \A i \in 1..12 : ~V1Tagged(p) /\ C10_Rejected(getPath(p, MetricRows[i].path)) => cell(i) = "--"

C10_RejectsNonNumbers ==
  /\ Rendered => C10_CmpSide(shown[1], C8_CellA) /\ C10_CmpSide(shown[2], C8_CellB)
  /\ (GatesSet /\ C10_Rejected(getPath(gatePack, P_M_UTIL_O)) /\ C10_Rejected(getPath(gatePack, P_L_UTIL_O)))
       => GateShows("gate-util", "fail", "missing")

-----------------------------------------------------------------------------
(* Properties of the telemetry panel *)

\* the track and the gpu object renderTelemetry last worked on
TelCalled == telPack # NoCall
TelTrack == TrackOf(track)
TelGpuObj == getPath(telPack, <<"telemetry", TelTrack, "gpu">>)
TelSeries(name) == Prop(TelGpuObj, name)

\* the selected track is missing, or its t_s or power_w is missing, not a
\* sequence, empty, or of unequal length
TelBad ==
  \/ TelGpuObj.t # "obj"
  \/ TelSeries("t_s").t # "arr" \/ TelSeries("power_w").t # "arr"
  \/ Len(TelSeries("t_s").a) = 0
  \/ Len(TelSeries("power_w").a) # Len(TelSeries("t_s").a)

CanvasHasSeries == \E k \in 1..Len(canvas) : canvas[k].op \in {"line", "shading"}

\* C16: when the selected track is missing or its t_s / power_w is missing,
\* not a sequence, empty or of unequal length, the status shows the explicit
\* missing / invalid state and the canvas shows no chart series, in
\* particular none of an earlier valid track or pack.
C16_InvalidShowsNoChart ==
  TelCalled /\ TelBad =>
    /\ telStatus \in {"telemetry: missing (" \o TelTrack \o ")", "telemetry: invalid (" \o TelTrack \o ")"}
    /\ ~CanvasHasSeries

\* the power limit of the pack, 350 when the pack gives none
C17_Limit == IF getPath(telPack, P_LIMIT).t = "num" THEN getPath(telPack, P_LIMIT).n ELSE 350 * Q

\* w / limit * 100 > 85 for a power w and a limit, both in quarters
C17_Over85(w, limit) ==
  IF limit > 0 THEN 100 * w > 85 * limit
  ELSE IF limit = 0 THEN w > 0
  ELSE 100 * w < 85 * limit

C17_UtilLow(i) ==
  /\ TelSeries("gpu_util_pct").t = "arr" /\ i <= Len(TelSeries("gpu_util_pct").a)
  /\ num(TelSeries("gpu_util_pct").a[i]) # Null
  /\ num(TelSeries("gpu_util_pct").a[i]).n < 70 * Q

C17_PowerHigh(i) ==
  /\ num(TelSeries("power_w").a[i]) # Null
  /\ C17_Over85(num(TelSeries("power_w").a[i]).n, C17_Limit)

C17_Count == Cardinality({i \in 1..Len(TelSeries("t_s").a) : C17_UtilLow(i) \/ C17_PowerHigh(i)})

\* C17: for a valid track the flagged count in the status is the number of
\* samples whose utilization is present and < 70.0 or whose power percent
\* (power / limit * 100, not clamped) is present and > 85.0, both strictly.
C17_FlaggedCount ==
  TelCalled /\ ~TelBad =>
    telStatus = ChartStatus(TelTrack, Len(TelSeries("t_s").a), ChartWindow(TelSeries("t_s")), C17_Count)

\* utilization 70.0 three times and power 297.5 (85.0 percent of 350), 297.75
\* and 0: only the second sample is flagged
C17_Witness ==
  /\ TelCalled /\ ~TelBad /\ C17_Limit = 350 * Q
  /\ TelSeries("gpu_util_pct") = Seq3(N(70, 0), N(70, 0), N(70, 0))
  /\ TelSeries("power_w") = Seq3(N(297, 2), N(297, 3), N(0, 0))
  /\ telStatus = "telemetry: omega | points=3 | window=2.0s | flagged=1"

\* power 300, 400, 300 against the limit 350: every sample is above 85 percent
C17_Scenario ==
  TelCalled /\ ~TelBad /\ C17_Limit = 350 * Q /\ TelSeries("power_w") = POWER3
  /\ TelSeries("gpu_util_pct") = Seq3(N(70, 0), N(70, 0), N(70, 0))
    => telStatus = "telemetry: " \o TelTrack \o " | points=3 | window=2.0s | flagged=3"

\* C18: running renderTelemetry again on the same pack and the same track
\* changes neither the canvas (the point arrays of the three lines and the
\* shading) nor the status (validity and flagged count).
C18_Idempotent ==
  TelCalled => renderTelemetry(telPack, track, canvas) = [canvas |-> canvas, telStatus |-> telStatus]

\* main() has run renderTelemetry twice on a valid track
C18_Witness ==
  /\ pc = "ready" /\ telPack = summary /\ lastPack = summary /\ ~TelBad /\ CanvasHasSeries
  /\ Len(canvas) = 6

\* C19: a change of the track selector re-runs renderTelemetry on the held
\* pack (the last rendered pack, else the bundled summary), starts no read,
\* and leaves the held pack and the gates as they were.
C19_TrackChangeStep ==
  /\ telPack' = OrElse(lastPack, summary)
  /\ canvas' = renderTelemetry(OrElse(lastPack, summary), track', canvas).canvas
  /\ telStatus' = renderTelemetry(OrElse(lastPack, summary), track', canvas).telStatus
  /\ UNCHANGED <<pc, summary, lastPack, gates, gatePack, srcSha, exported, reads, picked>>

C19_TrackChange == [][track' # track => C19_TrackChangeStep]_vars

\* the loaded file has an invalid omega track and, uniquely, the limit 500:
\* its baseline chart is on the canvas only after a switch to baseline, and
\* stays there after the switch back to omega
C19_Witness ==
  /\ lastPack = TelPackOf(N(500, 0), TelGpu(T_S3, Arr(<<>>), UTIL3, TEMP3), ValidTrack)
  /\ lastPack # summary /\ telPack = lastPack /\ gatePack = lastPack
  /\ TrackOf(track) = "omega" /\ telStatus = "telemetry: invalid (omega)"
  /\ canvas = renderTelemetry(lastPack, "baseline", <<>>).canvas

\* C20: a pack with missing, empty or length-mismatched telemetry sets all
\* four gates, to the statuses the same pack with valid telemetry gets.
C20_ValidTelemetry == Obj(("omega" :> TrackEntry(ValidTrack)) @@ ("baseline" :> TrackEntry(ValidTrack)))

C20_GatesIgnoreTelemetry ==
  GatesSet /\ gatePack.t = "obj" =>
    /\ gates = GatesOf(WithTelemetry(gatePack, C20_ValidTelemetry))
    /\ \A g \in GateIds : gates[g].cls \in {"pass", "fail", "warn"}

C20_Witness ==
  /\ GatesSet /\ telPack = gatePack /\ TelBad
  /\ telStatus = "telemetry: invalid (omega)"
  /\ gates["gate-memo"].text = "PASS -- 150.0x (min 100x)"
  /\ gates["gate-exactness"].cls = "pass" /\ gates["gate-util"].cls = "fail"
  /\ gates["gate-power"].cls = "pass"

-----------------------------------------------------------------------------
(* Properties of a session *)

\* this step is the completion of the read at position i
DoneAt(i) == reads' = RemoveAt(reads, i)

ReadsOf(target) == {i \in 1..Len(reads) : reads[i].target = target}

C11_LoadStep(i) ==
  /\ reads[i].target = "A" =>
       packB' = packB /\ (reads[i].file.ok => packA' = reads[i].file.json)
  /\ reads[i].target = "B" =>
       packA' = packA /\ (reads[i].file.ok => packB' = reads[i].file.json)

\* C11: a completed load changes only the slot it targets: a load of B
\* leaves slot A as it was, a load of A leaves slot B as it was; no other
\* step changes a slot.
C11_OnlyTargetSlot ==
  [][/\ \A i \in 1..Len(reads) : DoneAt(i) => C11_LoadStep(i)
     /\ Len(reads') >= Len(reads) => UNCHANGED <<packA, packB>>]_vars

\* A and B were loaded one after the other and a further load of B is in
\* flight
C11_Witness ==
  /\ packA = PackP1 /\ packB = PackP2 /\ shown = <<PackP1, PackP2>>
  /\ reads = <<ReadOf("B", FileOf(PackP1))>>

C12_LoadStep ==
  IF Truthy(packA') /\ Truthy(packB')
  THEN tbody' = render(packA', packB') /\ shown' = <<packA', packB'>>
  ELSE UNCHANGED <<tbody, shown>>

\* C12: a completed load renders the comparison exactly when both slots are
\* populated at that moment, from the slots as they then are; no other step
\* renders, so there are no rows before both slots were loaded, whatever
\* the order in which the reads complete.
C12_RenderIffBoth ==
  [][/\ \A i \in 1..Len(reads) :
          DoneAt(i) /\ reads[i].target \in {"A", "B"} /\ reads[i].file.ok => C12_LoadStep
     /\ (\A i \in 1..Len(reads) : ~(DoneAt(i) /\ reads[i].file.ok)) => UNCHANGED <<tbody, shown>>]_vars

\* both slots loaded, the table rendered from them, nothing in flight
C12_Witness ==
  /\ packA = PackP2 /\ packB = PackP1 /\ tbody = render(PackP2, PackP1)
  /\ status = STATUS_BOTH /\ reads = <<>>

\* the reads for A and B are in flight together and no row is shown
C12_InFlightTogether ==
  /\ ReadsOf("A") # {} /\ ReadsOf("B") # {} /\ tbody = <<>> /\ packA = Null /\ packB = Null

C13_FailedStep(i) ==
  IF reads[i].target = "pack"
  THEN /\ srcSha' = SHA_FAILED
       /\ UNCHANGED <<lastPack, gates, gatePack, canvas, telStatus, telPack, track, exported, cmpVars>>
  ELSE /\ status' = STATUS_FAILED
       /\ UNCHANGED <<packA, packB, tbody, shown, auditVars>>

\* C13: when the selected file is not valid JSON, the completion of its
\* read shows the failure message (in #status, or in #src-sha of the audit
\* view), renders nothing, and leaves the slots, the last pack, the table,
\* the gates and the telemetry as they were.
C13_ParseFailure ==
  [][\A i \in 1..Len(reads) : DoneAt(i) /\ ~reads[i].file.ok => C13_FailedStep(i)]_vars

\* a failed load after a pack was rendered: the gates of that pack stay
C13_Witness ==
  /\ srcSha = SHA_FAILED /\ picked["pack"] = BadFile /\ reads = <<>>
  /\ lastPack = PackG1 /\ gatePack = PackG1 /\ gates = GatesOf(PackG1)
  /\ telStatus = "telemetry: omega | points=3 | window=2.0s | flagged=3"

\* the same in the comparator: the rendered table stays
C13_WitnessCompare ==
  /\ status = STATUS_FAILED /\ reads = <<>>
  /\ packA = PackP1 /\ packB = PackP2 /\ tbody = render(PackP1, PackP2)

SlotOf(target) ==
  CASE target = "A" -> packA
    [] target = "B" -> packB
    [] target = "pack" -> lastPack

\* C14: once the reads of a target have completed, the slot holds the pack
\* of the selection made last for it, and what is rendered comes from it.
C14_LaterSelectionWins ==
  \A g \in Targets :
    picked[g] # NoFile /\ picked[g].ok /\ Truthy(picked[g].json) /\ ReadsOf(g) = {}
    /\ Truthy(SlotOf(g)) =>
      /\ SlotOf(g) = picked[g].json
      /\ Truthy(packA) /\ Truthy(packB) => shown = <<packA, packB>>

-----------------------------------------------------------------------------
(* Properties of the comparison table: catalogue and hints *)

C21_Labels ==
  <<"GPU name",
    "CTDR/Omega QPS", "CTDR/Omega latency p95 (ms)", "CTDR/Omega J/query",
    "CTDR/Omega power avg (W)", "CTDR/Omega GPU util avg (%)", "CTDR/Omega top-1 accuracy",
    "Baseline vector_scan QPS", "Baseline vector_scan latency p95 (ms)", "Baseline vector_scan J/query",
    "Baseline vector_scan power avg (W)", "Baseline vector_scan GPU util avg (%)",
    "Baseline vector_scan top-1 accuracy">>

\* the accuracy of a side is the value of its candidate accuracy row
C21_LowA == ShownA(6) # Null /\ ShownA(6).n < 4
C21_LowB == ShownB(6) # Null /\ ShownB(6).n < 4

C21_HintA == [label |-> "Gate: A exactness", a |-> "FAIL (<1.0)", b |-> "", delta |-> "", cls |-> "warn"]
C21_HintB == [label |-> "Gate: B exactness", a |-> "", b |-> "FAIL (<1.0)", delta |-> "", cls |-> "warn"]

\* C21: the table is the 13 rows of the catalogue in their fixed order (GPU
\* name, six candidate rows, six baseline rows), followed by the hint of
\* side A exactly when A's accuracy is present and < 1.0 and then the hint
\* of side B exactly when B's accuracy is present and < 1.0.
C21_CatalogueAndHints ==
  Rendered =>
    /\ Len(tbody) >= 13
    /\ \A i \in 1..13 : tbody[i].label = C21_Labels[i]
    /\ SubSeq(tbody, 14, Len(tbody)) =
         (IF C21_LowA THEN <<C21_HintA>> ELSE <<>>) \o (IF C21_LowB THEN <<C21_HintB>> ELSE <<>>)

\* both hints, A's first
C21_Witness ==
  /\ Rendered /\ Len(tbody) = 15 /\ tbody[14] = C21_HintA /\ tbody[15] = C21_HintB
  /\ ShownA(6) = Num(3) /\ ShownB(6) = Num(3)

\* accuracy exactly 1.0 on side A and absent on side B: no hint
C21_NoHint ==
  /\ Rendered /\ Len(tbody) = 13 /\ ShownA(6) = Num(4) /\ ShownB(6) = Null

-----------------------------------------------------------------------------
(* Properties of a session: recovery, held pack, stale table *)

\* a pack that renderSummary renders to the end
WellFormed(j) == Truthy(j) /\ ~SrcThrows(j)

C22_AuditLoad(i) ==
  reads[i].target = "pack" /\ reads[i].file.ok /\ WellFormed(reads[i].file.json) =>
    /\ lastPack' = reads[i].file.json
    /\ gatePack' = reads[i].file.json
    /\ gates' = GatesOf(reads[i].file.json)
    /\ telPack' = reads[i].file.json
    /\ telStatus' = renderTelemetry(reads[i].file.json, track, canvas).telStatus

C22_CompareLoad(i) ==
  reads[i].target \in {"A", "B"} /\ reads[i].file.ok /\ Truthy(packA') /\ Truthy(packB') =>
    tbody' = render(packA', packB') /\ status' = STATUS_BOTH

\* the part of C22 about a following load: the completion of a successful
\* read renders from the newly loaded pack, whatever failed before
C22_LoadRecovers ==
  [][\A i \in 1..Len(reads) : DoneAt(i) => C22_AuditLoad(i) /\ C22_CompareLoad(i)]_vars

\* C22: no failure ends the view: the load handlers are registered once the
\* page has started and stay active, so a following load can recover.
C22_HandlersStayActive == pc \in {"boot", "ready", "compare"}

\* C24: the held pack (the one a track switch and the export use) is the
\* pack the displayed gates were computed from: a load either re-evaluates
\* all four gates and holds its pack, or changes neither.
C24_HeldPackIsGatePack ==
  pc = "ready" =>
    /\ lastPack = gatePack
    /\ Truthy(lastPack) => gates = GatesOf(lastPack)

\* C26: whenever the table shows rows, they are the render of the current
\* contents of slots A and B.
C26_TableIsCurrent ==
  tbody # <<>> => Truthy(packA) /\ Truthy(packB) /\ tbody = render(packA, packB)

-----------------------------------------------------------------------------
(* Properties of the fallback to the legacy path *)

\* metrics[which][key] of a v1 pack is missing or not numeric
C23_NoV1Value(p, which, key) == V1Tagged(p) /\ num(MetricLeaf(p, which, key)) = Null

C23_CmpSide(p, cell(_)) ==
  \A i \in 1..12 :
    C23_NoV1Value(p, MetricRows[i].which, MetricRows[i].key) =>
      cell(i) = FmtNum(num(getPath(p, MetricRows[i].path)), MetricRows[i].fmtDec)

C23_LegacyAcc(p) == num(getPath(p, P_L_ACC_O))

C23_HintSide(p, hint) ==
  C23_NoV1Value(p, "omega", "top1_accuracy") =>
    ((\E k \in 14..Len(tbody) : tbody[k] = hint) <=> (C23_LegacyAcc(p) # Null /\ C23_LegacyAcc(p).n < 4))

C23_Gates(p) ==
  LET u == num(getPath(p, P_L_UTIL_O))
      aB == Coalesce(num(MetricLeaf(p, "baseline", "top1_accuracy")), num(getPath(p, P_L_ACC_B)))
      aO == Coalesce(num(MetricLeaf(p, "omega", "top1_accuracy")), num(getPath(p, P_L_ACC_O)))
  IN
  /\ C23_NoV1Value(p, "omega", "gpu_util_pct_avg") =>
       IF u = Null THEN GateShows("gate-util", "fail", "missing")
       ELSE GateShows("gate-util", IF u.n >= 280 THEN "pass" ELSE "fail", toFixed(u.n, 1) \o "%")
  /\ C23_NoV1Value(p, "omega", "top1_accuracy") \/ C23_NoV1Value(p, "baseline", "top1_accuracy") =>
       gates["gate-exactness"].cls =
         IF aB # Null /\ aO # Null /\ aB.n >= 4 /\ aO.n >= 4 THEN "pass" ELSE "fail"

\* the gate evaluator's half of C23
C23_GatesFallBack == GatesSet => C23_Gates(gatePack)

\* a v1 pack whose metrics object lacks the utilization while the legacy
\* path holds it, gated on the legacy value
C23_GatesWitness ==
  /\ GatesSet /\ C23_NoV1Value(gatePack, "omega", "gpu_util_pct_avg")
  /\ Truthy(Prop(gatePack, "metrics"))
  /\ num(getPath(gatePack, P_L_UTIL_O)) # Null

\* the comparator's rows
C23_RowsFallBack == Rendered => C23_CmpSide(shown[1], C8_CellA) /\ C23_CmpSide(shown[2], C8_CellB)

\* the comparator's hints
C23_HintsFallBack == Rendered => C23_HintSide(shown[1], C21_HintA) /\ C23_HintSide(shown[2], C21_HintB)

\* C23: for a pack tagged sigma_summary_public_v1 whose metrics[variant][metric]
\* is missing or not numeric, the comparator rows and hints and the gates use
\* the value at the legacy dotted path of that metric.
C23_FallsBackToLegacy == C23_GatesFallBack /\ C23_RowsFallBack /\ C23_HintsFallBack

-----------------------------------------------------------------------------
(* Properties of the series lengths of a track *)

\* the named series of the selected track is a sequence whose length is not
\* that of t_s
C25_LengthDiffers(name) ==
  /\ TelGpuObj.t = "obj"
  /\ TelSeries("t_s").t = "arr" /\ TelSeries(name).t = "arr"
  /\ Len(TelSeries(name).a) # Len(TelSeries("t_s").a)

\* the part of C25 the code checks: power_w
C25_PowerLength ==
  TelCalled /\ C25_LengthDiffers("power_w") => telStatus = "telemetry: invalid (" \o TelTrack \o ")"

C25_PowerWitness ==
  TelCalled /\ C25_LengthDiffers("power_w") /\ Len(TelSeries("t_s").a) > 0

\* C25: a track is invalid whenever power_w, gpu_util_pct or temp_c has a
\* length different from that of t_s, and is then not drawn as a chart.
C25_UnequalLengthInvalid ==
  TelCalled /\ (\E name \in {"power_w", "gpu_util_pct", "temp_c"} : C25_LengthDiffers(name)) =>
    telStatus = "telemetry: invalid (" \o TelTrack \o ")"

====
